---- MODULE Spec2Model ----
(***************************************************************************)
(* Model of the desearch validator's reputation store                      *)
(* (Neuron.update_moving_averaged_scores, neurons/validators/validator.py),*)
(* of its organic query history (OrganicHistoryMixin,                      *)
(* neurons/validators/organic_history_mixin.py), of its membership refresh *)
(* (Neuron.update_available_uids_periodically), of its worker selection    *)
(* (Neuron.get_uids), of the periodic tasks of Neuron.run (sync_metagraph, *)
(* sync and the query loops), of the LLM scoring (RewardLLM.llm_processing,*)
(* neurons/validators/reward/reward_llm.py), of the task-validation        *)
(* penalty (neurons/validators/penalty/task_validation.py), of the HTTP    *)
(* endpoints and their result aggregation (neurons/validators/api.py), of  *)
(* the retried LLM API call (call_openai, template/utils.py) and of the    *)
(* SerpAPI wrapper (datura/tools/search/serp_api_wrapper.py).              *)
(*                                                                         *)
(* Scores and rewards are rationals in [0,1], held as integer numerators   *)
(* over the common denominator Scale, which is chosen so that MaxUpdates   *)
(* successive moving-average updates are computed without rounding.        *)
(***************************************************************************)
EXTENDS Integers, Sequences, FiniteSets, TLC

\* ------------------------------------------------------------------ bounds

\* Number of score updates a behaviour performs: one per query round.
MaxUpdates == 2

\* The query rounds (tasks created on the event loop), each updating once.
Tasks == 1..MaxUpdates

\* Worker ids of the metagraph (indices of the score tensor).
Uids == {0, 1}

\* Resolution of the smoothing constant.
AlphaDen == 4

\* moving_average_alpha = a / AlphaDen for a in Alphas: 1/4, 1/2 and 1.
Alphas == {1, 2, AlphaDen}

\* Common denominator of scores and rewards.
Scale == 2 * AlphaDen ^ MaxUpdates

\* Rewards handed to an update: 0, 1/2 and 1.
RewardLevels == {0, Scale \div 2, Scale}

\* The rewards and the alpha of the concurrent rounds: 0 and 1; 1/4.
RoundRewardLevels == {0, Scale}
RoundAlphas == {1}

\* Scores the validator may load at start-up: 0 and 1.
LoadLevels == {0, Scale}

\* Number of organic history entries a behaviour records.
MaxEntries == 3

\* OrganicHistoryMixin.HISTORY_EXPIRY_TIME, in seconds.
HISTORY_EXPIRY_TIME == 2 * 3600

\* The instants (seconds) at which the clock is read: two instants one
\* second apart and a third, one retention window after the second.
TimePoints == {0, 1, HISTORY_EXPIRY_TIME + 1}

\* The content of a durable store that holds no score vector; a store that
\* holds the vector v is {v}.
NoScores == {}

\* The organic requests being served: API handlers running on the event loop.
Requests == {1, 2}

\* The hotkeys that register on the subnet; the uid slots start with the
\* first ones, in order, and a later registration takes the slot of another.
Hotkeys == <<"hk0", "hk1", "hk2">>

\* The coldkeys that own them.
Coldkeys == {"ck0", "ck1"}

\* config.neuron.only_allowed_miners
only_allowed_miners == {"ck1"}

\* The scraper validators, each with an organic history of its own.
Kinds == {"advanced", "basic", "basic_web"}

\* The keys of the event dict the callers record with the responses.
EventKeys == {"key1", "key2"}

\* The periodic tasks Neuron.run() creates on the event loop: the refresh of
\* the available uids, the metagraph resync, the weight sync, and the query
\* loops of the two synthetic strategies and of the organic scoring.
Loops == {"refresh", "sync_metagraph", "sync", "RANDOM", "ALL", "organic"}

\* The query loops among them.
QueryLoops == {"RANDOM", "ALL", "organic"}

\* The values of config.neuron the behaviour depends on; an interval of 0
\* switches a synthetic loop off.
Intervals == {0, 1}
Configs == [disable_set_weights : BOOLEAN, synthetic_disabled : BOOLEAN,
            run_random_miner_syn_qs_interval : Intervals,
            run_all_miner_syn_qs_interval : Intervals]

\* hasattr(self, "uid_manager") is false.
NoManager == [built |-> FALSE, available_uids |-> <<>>, last |-> {}]

VARIABLES
    moving_averaged_scores, \* self.moving_averaged_scores: [Uids -> 0..Scale]
    stored_scores,          \* the durable store: {vector}, or NoScores
    alpha,                  \* self.config.neuron.moving_average_alpha * AlphaDen
    round,                  \* per task: its pc, uids, rewards, updates done when it began
    loaded_scores,          \* history: the vector loaded at start-up
    seen_scores,            \* history: per task, the vector when its round began
    scored,                 \* history: uids whose score comes from the store or an update
    unsaved,                \* history: updates made since the store last held the vector
    nUpdates,               \* history: number of updates performed
    organic_history,        \* self.organic_history: the dict, as the sequence of
                            \* its items [uid, values] in key insertion order
    stored_history,         \* the history in the durable store (redis_key)
    now,                    \* time.time()
    next_id,                \* serial number of the next recorded entry
    call,                   \* history: the last operation, its arguments and outcome
    requests,               \* per organic request: its pc, uids, start_time, ids
    available_uids,         \* self.available_uids
    uid_manager,            \* self.uid_manager, or NoManager before it is built
    metagraph,              \* self.metagraph.axons: per uid its hotkey and coldkey
    histories,              \* per scraper validator, its organic history by hotkey
    pc,                     \* per periodic task of run(): where it stands
    probed,                 \* history: the last two refresh cycles
    block,                  \* the chain's current block
    rounds,                 \* query rounds created and not finished
    organic_responses_computed, \* self.organic_responses_computed
    config                  \* self.config.neuron

score_vars == <<moving_averaged_scores, stored_scores, alpha, round,
                loaded_scores, seen_scores, scored, unsaved, nUpdates>>

history_vars == <<organic_history, stored_history, now, next_id>>

member_vars == <<available_uids, uid_manager, metagraph, histories>>

loop_vars == <<pc, probed, block, rounds, organic_responses_computed, config>>

vars == <<score_vars, history_vars, call, requests, member_vars, loop_vars>>

\* ----------------------------------------------------------- pure helpers

\* The ascending sequences of elements of S, the empty one included: the
\* lists get_available_uids_is_alive builds, in the order of metagraph.uids.
AscendingSeqs(S) ==
    UNION {{q \in [1..n -> S] : \A i, j \in 1..n : i < j => q[i] < q[j]} :
           n \in 0..Cardinality(S)}

\* The non-empty sequences of distinct elements of S: the uid lists the
\* callers pass (the selected available uids, the keys of a history).
DistinctSeqs(S) ==
    UNION {{q \in [1..n -> S] : \A i, j \in 1..n : i # j => q[i] # q[j]} :
           n \in 1..Cardinality(S)}

Range(s) == {s[i] : i \in DOMAIN s}

\* A scatter that pairs every listed uid with the first reward.
ScatterFirstReward(base, uids, rewards) ==
    [u \in Uids |-> IF u \in Range(uids) THEN rewards[1] ELSE base[u]]

\* torch.Tensor.scatter(0, uids, rewards): a copy of base with
\* out[uids[i]] = rewards[i]; the other positions keep base's value.
Scatter(base, uids, rewards) ==
    [u \in Uids |->
        IF u \in Range(uids)
        THEN rewards[CHOOSE i \in DOMAIN uids : uids[i] = u]
        ELSE base[u]]

\* A moving average that adds alpha * reward to the undecayed old score.
MovingAverageNoDecay(a, scattered, old) ==
    [u \in Uids |-> (a * scattered[u] + AlphaDen * old[u]) \div AlphaDen]

\* A moving average that steps away from the reward instead of toward it.
MovingAverageAway(a, scattered, old) ==
    [u \in Uids |-> old[u] - (a * (scattered[u] - old[u])) \div AlphaDen]

\* A moving average that gives a worker without a prior score its reward.
MovingAverageLazyInit(a, scattered, old) ==
    [u \in Uids |->
        IF u \notin scored THEN scattered[u]
        ELSE (a * scattered[u] + (AlphaDen - a) * old[u]) \div AlphaDen]

\* alpha * scattered_rewards + (1 - alpha) * self.moving_averaged_scores
MovingAverage(a, scattered, old) ==
    [u \in Uids |-> (a * scattered[u] + (AlphaDen - a) * old[u]) \div AlphaDen]

\* A write that is deferred (batched) and never reaches the store.
SaveDeferred(store, scores, fails) == store

\* save_moving_averaged_scores(scores): the store after the write, which
\* either succeeds or raises and leaves the store as it was.
save_moving_averaged_scores(store, scores, fails) ==
    IF fails THEN store ELSE {scores}

\* An update that restores the old vector when the write fails.
ScoresRolledBack(new, old, fails) == IF fails THEN old ELSE new

\* The in-memory vector after the write was attempted: the assignment of
\* line 342 precedes the write and the except clause only logs and re-raises.
ScoresAfterSave(new, old, fails) == new

\* An update that works on the vector its round read before awaiting.
ReadScoresBeforeAwait(t) == seen_scores[t]

\* The vector the update of task t reads as self.moving_averaged_scores: the
\* attribute's value at the time of the call, which runs without awaiting.
ReadScores(t) == moving_averaged_scores

\* ------------------------------------------------------------------- Init

InitNeuron ==
    /\ moving_averaged_scores \in [Uids -> LoadLevels]
    /\ stored_scores \in {NoScores, {moving_averaged_scores}}
    /\ alpha \in Alphas
    /\ round = [t \in Tasks |-> [pc |-> "idle", uids |-> <<>>, rewards |-> <<>>,
                              began |-> 0]]
    /\ loaded_scores = moving_averaged_scores
    /\ seen_scores = [t \in Tasks \cup {0} |-> moving_averaged_scores]
    /\ scored = IF stored_scores = NoScores THEN {} ELSE Uids
    /\ unsaved = 0
    /\ nUpdates = 0
    /\ organic_history = <<>>
    /\ stored_history = <<>>
    /\ now = 0
    /\ next_id = 1
    /\ call = [op |-> "init"]
    /\ requests = [r \in Requests |-> [pc |-> "idle", uids |-> <<>>, start_time |-> 0,
                                       id |-> 0, seen |-> 0, after |-> "init"]]
    /\ available_uids = <<>>
    /\ uid_manager = NoManager
    /\ metagraph = [u \in Uids |-> [hotkey |-> Hotkeys[u + 1], coldkey |-> "ck0"]]
    /\ histories = [k \in Kinds |-> <<>>]

\* run() has not been called: no periodic task exists.
NoLoops ==
    /\ pc = [l \in Loops |-> "off"]
    /\ probed = <<>>
    /\ block = 0
    /\ rounds = 0
    /\ organic_responses_computed = FALSE
    /\ config = [disable_set_weights |-> FALSE, synthetic_disabled |-> FALSE,
                 run_random_miner_syn_qs_interval |-> 1,
                 run_all_miner_syn_qs_interval |-> 1]

InitScores ==
    /\ InitNeuron
    /\ NoLoops

\* ---------------------------------------------------------------- actions

\* Neuron.update_moving_averaged_scores(uids, rewards), called by task t;
\* fails tells whether the write to the store raises.
update_moving_averaged_scores(t, uids, rewards, fails) ==
    LET old == ReadScores(t)
        scattered_rewards == Scatter(old, uids, rewards)
        new == MovingAverage(alpha, scattered_rewards, old)
    IN /\ moving_averaged_scores' = ScoresAfterSave(new, old, fails)
       /\ stored_scores' = save_moving_averaged_scores(stored_scores, new, fails)
       /\ scored' = scored \cup Range(uids)
       /\ unsaved' = IF fails THEN unsaved + 1 ELSE 0
       /\ nUpdates' = nUpdates + 1
       /\ call' = [op |-> "update", task |-> t, uids |-> uids,
                   rewards |-> rewards, old |-> moving_averaged_scores,
                   scattered |-> scattered_rewards,
                   fresh |-> Range(uids) \ scored,
                   repeated |-> IF call.op = "update"
                                THEN {uids[i] : i \in
                                       {k \in DOMAIN uids :
                                         \E j \in DOMAIN call.uids :
                                           /\ call.uids[j] = uids[k]
                                           /\ call.rewards[j] = rewards[k]}}
                                ELSE {},
                   raised |-> fails]

\* A query round starts: run_with_interval creates the task, which selects
\* its uids and then awaits the workers and the scorers.
StartRound(t, uids) ==
    /\ round[t].pc = "idle"
    /\ round' = [round EXCEPT ![t] = [pc |-> "querying", uids |-> uids,
                                      rewards |-> <<>>, began |-> nUpdates]]
    /\ seen_scores' = [seen_scores EXCEPT ![t] = moving_averaged_scores]
    /\ UNCHANGED <<moving_averaged_scores, stored_scores, alpha, loaded_scores,
                   scored, unsaved, nUpdates, call, history_vars, requests,
                   loop_vars, member_vars>>

\* The round's awaits are over: its rewards are folded into the scores.
FinishRound(t, rewards, fails) ==
    /\ round[t].pc = "querying"
    /\ update_moving_averaged_scores(t, round[t].uids, rewards, fails)
    /\ round' = [round EXCEPT ![t].pc = "done", ![t].rewards = rewards]
    /\ UNCHANGED <<alpha, loaded_scores, seen_scores, history_vars, requests,
                   loop_vars, member_vars>>

\* ------------------------------------------------- the reputation store

\* Score updates made one after another, by rounds that do not overlap.
UpdateScores ==
    /\ nUpdates < MaxUpdates
    /\ \E uids \in DistinctSeqs(Uids) :
         \E rewards \in [DOMAIN uids -> RewardLevels] :
           \E fails \in BOOLEAN :
             update_moving_averaged_scores(0, uids, rewards, fails)
    /\ UNCHANGED <<alpha, round, loaded_scores, seen_scores, history_vars,
                   requests, loop_vars, member_vars>>

NextScores == UpdateScores

SpecScores == InitScores /\ [][NextScores]_vars

\* ------------------------------------------------- concurrent query rounds

\* The rounds are interchangeable: they are numbered in the order they start.
StartAnyRound ==
    \E t \in Tasks :
        /\ \A p \in Tasks : p < t => round[p].pc # "idle"
        /\ \E uids \in DistinctSeqs(Uids) : StartRound(t, uids)

FinishAnyRound ==
    \E t \in Tasks :
        \E rewards \in [DOMAIN round[t].uids -> RoundRewardLevels] :
            \E fails \in BOOLEAN : FinishRound(t, rewards, fails)

InitRounds ==
    /\ InitScores
    /\ alpha \in RoundAlphas

NextRounds ==
    \/ StartAnyRound
    \/ FinishAnyRound

SpecRounds == InitRounds /\ [][NextRounds]_vars

\* ------------------------------------------------- the organic history

\* An expiry test that drops the entry recorded exactly one window ago.
KeepsYoungerOnly(value, current_time) ==
    value.start_time > current_time - HISTORY_EXPIRY_TIME

\* value["start_time"] >= current_time - self.HISTORY_EXPIRY_TIME
Keeps(value, current_time) ==
    value.start_time >= current_time - HISTORY_EXPIRY_TIME

\* The position of uid's item in the dict h, or 0 (uid not in h).
IndexOf(h, uid) ==
    IF \E i \in DOMAIN h : h[i].uid = uid
    THEN CHOOSE i \in DOMAIN h : h[i].uid = uid
    ELSE 0

\* The two dict comprehensions of _clean_organic_history at current_time:
\* the values still kept, per uid, and then the uids with values left.
CleanHistory(h, current_time) ==
    LET KeepsNow(value) == Keeps(value, current_time)
        NonEmpty(item) == Len(item.values) > 0
        pruned == [i \in DOMAIN h |->
                     [uid |-> h[i].uid, values |-> SelectSeq(h[i].values, KeepsNow)]]
    IN SelectSeq(pruned, NonEmpty)

\* self._save_history(history): the store after the write, which either
\* succeeds or raises and leaves the store as it was.
_save_history(store, history, fails) ==
    IF fails THEN store ELSE history

\* A read path that skips the pruning.
ReadsUnpruned(h, current_time) == h

\* The history a read operation works on: its first statement is
\* self._clean_organic_history().
PruneOnRead(h, current_time) == CleanHistory(h, current_time)

\* A recording that replaces the uid's list by the new entry alone.
AppendEntryOverwrites(h, uid, id, start_time) ==
    LET entry == [id |-> id, start_time |-> start_time]
        i == IndexOf(h, uid)
    IN IF i = 0
       THEN Append(h, [uid |-> uid, values |-> <<entry>>])
       ELSE [h EXCEPT ![i].values = <<entry>>]

\* A recording that puts the new entry in front of the uid's older ones.
PrependEntry(h, uid, id, start_time) ==
    LET entry == [id |-> id, start_time |-> start_time]
        i == IndexOf(h, uid)
    IN IF i = 0
       THEN Append(h, [uid |-> uid, values |-> <<entry>>])
       ELSE [h EXCEPT ![i].values = <<entry>> \o @]

\* The dict after one iteration of the loop of _save_organic_response.
AppendEntry(h, uid, id, start_time) ==
    LET entry == [id |-> id, start_time |-> start_time]
        i == IndexOf(h, uid)
    IN IF i = 0
       THEN Append(h, [uid |-> uid, values |-> <<entry>>])
       ELSE [h EXCEPT ![i].values = Append(@, entry)]

RECURSIVE AppendEntries(_, _, _, _)
\* The dict after the loop of _save_organic_response over uids; the entry
\* of the k-th uid holds the k-th response, task and event (serial id + k - 1).
AppendEntries(h, uids, id, start_time) ==
    IF uids = <<>> THEN h
    ELSE AppendEntries(AppendEntry(h, Head(uids), id, start_time),
                       Tail(uids), id + 1, start_time)

\* time.time() advances.
Tick ==
    /\ \E t \in TimePoints : t > now /\ now' = t
    /\ call' = [op |-> "tick"]
    /\ UNCHANGED <<score_vars, member_vars, requests, loop_vars, organic_history,
                   stored_history, next_id>>

\* OrganicHistoryMixin._clean_organic_history()
_clean_organic_history(fails) ==
    /\ organic_history' = CleanHistory(organic_history, now)
    /\ stored_history' = _save_history(stored_history, organic_history', fails)
    /\ call' = [op |-> "clean", pre |-> organic_history, now |-> now,
                raised |-> fails]
    /\ UNCHANGED <<score_vars, member_vars, now, next_id>>

\* OrganicHistoryMixin._save_organic_response(uids, responses, tasks, event,
\* start_time): start_time is the caller's, taken when its round began.
_save_organic_response(uids, start_time, fails) ==
    /\ next_id + Len(uids) - 1 <= MaxEntries
    /\ organic_history' = AppendEntries(organic_history, uids, next_id, start_time)
    /\ stored_history' = _save_history(stored_history, organic_history', fails)
    /\ next_id' = next_id + Len(uids)
    /\ call' = [op |-> "save", pre |-> organic_history, now |-> now,
                uids |-> uids, start_time |-> start_time, raised |-> fails]
    /\ UNCHANGED <<score_vars, member_vars, now>>

\* The entries drawn from the dict h: item[random_index], per uid.
Sampled(h, pick) == [i \in DOMAIN h |-> h[i].values[pick[i]]]

\* Event lists filled from each uid's last entry, whatever index was drawn.
EventListsOfLast(h, pick) ==
    [k \in (IF h = <<>> THEN {} ELSE EventKeys) |->
        [i \in DOMAIN h |-> h[i].values[Len(h[i].values)].id]]

\* The dict of event lists the read builds: a key gets its list when the
\* first drawn entry is visited, and every drawn entry appends its value.
EventLists(h, pick) ==
    [k \in (IF h = <<>> THEN {} ELSE EventKeys) |->
        [i \in DOMAIN h |-> Sampled(h, pick)[i].id]]

\* An index that takes each uid's first entry.
OldestIndex(h) == [i \in DOMAIN h |-> 1]

\* item[-1], per uid.
LatestIndex(h) == [i \in DOMAIN h |-> Len(h[i].values)]

\* The dict a read returns for the indexes pick: uids, responses (the
\* entries, with their start_time), tasks and event lists.
Responses(h, pick) ==
    [uids |-> [i \in DOMAIN h |-> h[i].uid],
     responses |-> Sampled(h, pick),
     tasks |-> [i \in DOMAIN h |-> Sampled(h, pick)[i].id],
     event |-> EventLists(h, pick)]

\* What a read returns when its pruning raises: nothing.
NoResponses == [uids |-> <<>>, responses |-> <<>>, tasks |-> <<>>, event |-> <<>>]

\* OrganicHistoryMixin.get_random_organic_responses(): pick[i] is the
\* random_index drawn for the i-th uid (0-based in the code, 1-based here).
get_random_organic_responses(pick, fails) ==
    LET h == PruneOnRead(organic_history, now)
        result == IF fails THEN NoResponses ELSE Responses(h, pick)
    IN /\ DOMAIN pick = DOMAIN h
       /\ \A i \in DOMAIN h : pick[i] \in 1..Len(h[i].values)
       /\ organic_history' = h
       /\ stored_history' = _save_history(stored_history, h, fails)
       /\ call' = [op |-> "get_random", pre |-> organic_history, now |-> now,
                   raised |-> fails, uids |-> result.uids,
                   responses |-> result.responses, tasks |-> result.tasks,
                   event |-> result.event]
       /\ UNCHANGED <<score_vars, member_vars, now, next_id>>

\* OrganicHistoryMixin.get_latest_organic_responses()
get_latest_organic_responses(fails) ==
    LET h == PruneOnRead(organic_history, now)
        result == IF fails THEN NoResponses ELSE Responses(h, LatestIndex(h))
    IN /\ organic_history' = h
       /\ stored_history' = _save_history(stored_history, h, fails)
       /\ call' = [op |-> "get_latest", pre |-> organic_history, now |-> now,
                   raised |-> fails, uids |-> result.uids,
                   responses |-> result.responses, tasks |-> result.tasks,
                   event |-> result.event]
       /\ UNCHANGED <<score_vars, member_vars, now, next_id>>

\* A list of the uids with no history that follows the order of the uid
\* values, largest first, instead of the order of the list given.
UidsWithNoHistorySorted(h, available) ==
    LET missing == {u \in Range(available) : IndexOf(h, u) = 0}
    IN CHOOSE q \in [1..Cardinality(missing) -> missing] :
           \A i, j \in DOMAIN q : i < j => q[i] > q[j]

\* [uid for uid in available_uids if uid not in self.organic_history]
UidsWithNoHistory(h, available) ==
    LET NotInHistory(uid) == IndexOf(h, uid) = 0
    IN SelectSeq(available, NotInHistory)

\* OrganicHistoryMixin.get_uids_with_no_history(available_uids)
get_uids_with_no_history(available, fails) ==
    LET h == PruneOnRead(organic_history, now)
    IN /\ organic_history' = h
       /\ stored_history' = _save_history(stored_history, h, fails)
       /\ call' = [op |-> "get_no_history", pre |-> organic_history, now |-> now,
                   raised |-> fails, available_uids |-> available,
                   uids |-> IF fails THEN <<>>
                            ELSE UidsWithNoHistory(h, available)]
       /\ UNCHANGED <<score_vars, member_vars, now, next_id>>

Clean ==
    /\ \E fails \in BOOLEAN : _clean_organic_history(fails)
    /\ UNCHANGED <<requests, loop_vars>>

\* The start times a caller may pass: its round began at or before now, and
\* a round, bounded by its timeouts, is shorter than the retention window.
RoundStarts ==
    {t \in TimePoints : t <= now /\ now - t < HISTORY_EXPIRY_TIME}

SaveResponses ==
    /\ \E uids \in DistinctSeqs(Uids) :
         \E start_time \in RoundStarts :
            \E fails \in BOOLEAN : _save_organic_response(uids, start_time, fails)
    /\ UNCHANGED <<requests, loop_vars>>

\* The index draws possible for the pruned history.
Picks ==
    LET h == PruneOnRead(organic_history, now)
    IN {pick \in [DOMAIN h -> 1..MaxEntries] :
          \A i \in DOMAIN h : pick[i] <= Len(h[i].values)}

GetRandom ==
    /\ \E pick \in Picks :
         \E fails \in BOOLEAN : get_random_organic_responses(pick, fails)
    /\ UNCHANGED <<requests, loop_vars>>

GetLatest ==
    /\ \E fails \in BOOLEAN : get_latest_organic_responses(fails)
    /\ UNCHANGED <<requests, loop_vars>>

GetNoHistory ==
    /\ \E uids \in AscendingSeqs(Uids) :
         \E fails \in BOOLEAN : get_uids_with_no_history(uids, fails)
    /\ UNCHANGED <<requests, loop_vars>>

NextHistory ==
    \/ Tick
    \/ SaveResponses
    \/ Clean
    \/ GetRandom
    \/ GetLatest
    \/ GetNoHistory

\* The history starts empty (nothing under redis_key); the scores play no part.
InitHistory ==
    /\ InitScores
    /\ alpha = AlphaDen
    /\ stored_scores = NoScores
    /\ moving_averaged_scores = [u \in Uids |-> 0]

SpecHistory == InitHistory /\ [][NextHistory]_vars

\* ------------------------------------------- concurrent organic requests

\* The uid lists a request queries: selected from the available uids, in
\* their order.
TargetUids == AscendingSeqs(Uids) \ {<<>>}

RECURSIVE Reserved(_)
\* The number of entries the awaiting requests of S are going to record.
Reserved(S) ==
    IF S = {} THEN 0
    ELSE LET r == CHOOSE x \in S : TRUE
         IN (IF requests[r].pc = "awaiting" THEN Len(requests[r].uids) ELSE 0)
            + Reserved(S \ {r})

\* An organic request arrives: the handler takes start_time = time.time(),
\* selects its uids and awaits the workers. Requests are interchangeable:
\* they are numbered in the order they arrive.
BeginOrganic(r, uids) ==
    /\ requests[r].pc = "idle"
    /\ \A p \in Requests : p < r => requests[p].pc # "idle"
    /\ next_id - 1 + Reserved(Requests) + Len(uids) <= MaxEntries
    /\ requests' = [requests EXCEPT ![r] = [pc |-> "awaiting", uids |-> uids,
                                            start_time |-> now, id |-> 0,
                                            seen |-> next_id, after |-> "init"]]
    /\ UNCHANGED <<score_vars, history_vars, call, member_vars, loop_vars>>

\* The workers have answered: the request records the responses. It began
\* less than a retention window ago (see RoundStarts).
EndOrganic(r, fails) ==
    /\ requests[r].pc = "awaiting"
    /\ requests[r].start_time \in RoundStarts
    /\ _save_organic_response(requests[r].uids, requests[r].start_time, fails)
    /\ requests' = [requests EXCEPT ![r].pc = "saved", ![r].id = next_id,
                                    ![r].after = call.op]
    /\ UNCHANGED loop_vars

BeginAnyOrganic ==
    \E r \in Requests : \E uids \in TargetUids : BeginOrganic(r, uids)

EndAnyOrganic ==
    \E r \in Requests : \E fails \in BOOLEAN : EndOrganic(r, fails)

NextOrganic ==
    \/ Tick
    \/ BeginAnyOrganic
    \/ EndAnyOrganic
    \/ Clean
    \/ GetRandom
    \/ GetLatest

SpecOrganic == InitHistory /\ [][NextOrganic]_vars

\* ------------------------------------------------- the membership refresh

\* The hotkeys registered in the axons.
HotkeysOf(axons) == {axons[u].hotkey : u \in DOMAIN axons}

\* The keys (workers) of history h.
KeysOf(h) == {h[i].uid : i \in DOMAIN h}

\* A removal that empties the history.
remove_all_workers(h, ids) == <<>>

\* remove_workers(ids): the history without the items of the workers ids.
remove_workers(h, ids) ==
    LET Stays(item) == item.uid \notin ids
    IN SelectSeq(h, Stays)

\* remove_deregistered_hotkeys(axons): removes the workers of the history
\* whose hotkey is no longer in the axons.
remove_deregistered_hotkeys(h, axons) ==
    remove_workers(h, KeysOf(h) \ HotkeysOf(axons))

\* A resync that leaves the rotation on the list it had.
resync_keeping_list(manager, uids) ==
    [built |-> TRUE, available_uids |-> manager.available_uids,
     last |-> manager.last]

\* UIDManager.resync(available_uids): the rotation runs over the new list.
resync(manager, uids) ==
    [built |-> TRUE, available_uids |-> uids, last |-> manager.last]

\* The points of a refresh cycle at which an exception can leave the try
\* block: the liveness probing, the uid manager, either purge; or none.
RefreshFailures == {"none", "probe", "manager", "purge_advanced", "purge_basic"}

\* The histories after the two purges of a cycle, of which the first or the
\* second may raise: the advanced validator's, then the basic validator's.
\* The basic web validator's history is not purged.
PurgedHistories(hs, axons, fails_at) ==
    [k \in Kinds |->
        IF \/ k = "advanced" /\ fails_at # "purge_advanced"
           \/ k = "basic" /\ fails_at \notin {"purge_advanced", "purge_basic"}
        THEN remove_deregistered_hotkeys(hs[k], axons)
        ELSE hs[k]]

\* One cycle of Neuron.update_available_uids_periodically: alive is the
\* list get_available_uids_is_alive returns. The statements after the await
\* run without yielding; an exception ends the cycle where it is raised.
update_available_uids(alive, fails_at) ==
    /\ available_uids' = IF fails_at = "probe" THEN available_uids ELSE alive
    /\ uid_manager' = IF fails_at \in {"probe", "manager"} THEN uid_manager
                      ELSE resync(uid_manager, alive)
    /\ histories' = IF fails_at \in {"probe", "manager"} THEN histories
                    ELSE PurgedHistories(histories, metagraph, fails_at)
    /\ call' = [op |-> "refresh", fails_at |-> fails_at, pre |-> histories]
    /\ UNCHANGED <<score_vars, history_vars, requests, metagraph>>

\* metagraph.sync(): a hotkey that was never registered takes the slot of a
\* uid, whose former hotkey is thereby deregistered.
resync_metagraph(uid, k, coldkey) ==
    /\ \A j \in DOMAIN Hotkeys : Hotkeys[j] \in HotkeysOf(metagraph) => j < k
    /\ metagraph' = [metagraph EXCEPT ![uid] = [hotkey |-> Hotkeys[k],
                                                 coldkey |-> coldkey]]
    /\ call' = [op |-> "resync_metagraph"]
    /\ UNCHANGED <<score_vars, history_vars, requests, available_uids,
                   uid_manager, histories>>

\* The validator kind serves an organic query with the available worker
\* uid and records its response in its history, under the worker's hotkey.
record_organic(kind, uid) ==
    /\ next_id <= Cardinality(Uids)
    /\ histories' = [histories EXCEPT
                       ![kind] = AppendEntry(@, metagraph[uid].hotkey, next_id, now)]
    /\ next_id' = next_id + 1
    /\ call' = [op |-> "record", kind |-> kind, uid |-> uid]
    /\ UNCHANGED <<score_vars, organic_history, stored_history, now, requests,
                   loop_vars, available_uids, uid_manager, metagraph>>

Refresh ==
    /\ \E alive \in AscendingSeqs(Uids) :
         \E fails_at \in RefreshFailures : update_available_uids(alive, fails_at)
    /\ UNCHANGED loop_vars

ResyncMetagraph ==
    /\ \E uid \in Uids : \E k \in DOMAIN Hotkeys : \E coldkey \in Coldkeys :
         resync_metagraph(uid, k, coldkey)
    /\ UNCHANGED loop_vars

RecordOrganic ==
    \E kind \in Kinds : \E uid \in Range(available_uids) : record_organic(kind, uid)

NextMembers ==
    \/ Refresh
    \/ ResyncMetagraph
    \/ RecordOrganic

SpecMembers == InitHistory /\ [][NextMembers]_vars

\* ------------------------------------------------- the worker selection

\* The values of the strategy argument.
Strategies == {"RANDOM", "ALL", "SPECIFIED"}

\* The values of the specified_uids argument: <<>> is None, the default.
SpecifiedUids == DistinctSeqs(Uids) \cup {<<>>}

\* UIDManager.get_miner_uid(): the uids the rotation may return, each as
\* {uid}, or {} for None. It rotates over the list it was resynced with and
\* does not repeat its last uid when another one is available.
get_miner_uid(manager) ==
    LET all == Range(manager.available_uids)
        others == all \ manager.last
    IN IF all = {} THEN {{}}
       ELSE {{u} : u \in (IF others = {} THEN all ELSE others)}

\* The truth value Python gives the returned uid: None and 0 are false.
Truthy(uid) == uid # {} /\ uid # {0}

\* A test that never finds the available uids empty.
NeverNoneAvailable(available) == FALSE

\* len(self.available_uids) == 0
NoneAvailable(available) == Len(available) = 0

\* A filter that ignores the allow-list.
uid_list_any_owner(available, is_only_allowed_miner, specified_uids, axons) ==
    LET Selected(uid) == specified_uids = <<>> \/ uid \in Range(specified_uids)
    IN SelectSeq(available, Selected)

\* uid_list: the available uids that pass both filters; "not specified_uids"
\* holds for None (and for an empty list).
uid_list(available, is_only_allowed_miner, specified_uids, axons) ==
    LET Selected(uid) ==
            /\ specified_uids = <<>> \/ uid \in Range(specified_uids)
            /\ ~is_only_allowed_miner \/ axons[uid].coldkey \in only_allowed_miners
    IN SelectSeq(available, Selected)

\* What get_uids returns, or that it raises, when get_miner_uid gives uid:
\* the early return of the empty list; the tensor of the strategy; for a
\* strategy that is neither RANDOM nor ALL, and for RANDOM without a uid
\* manager, the exception raised where the missing name is read.
Selection(strategy, is_only_allowed_miner, specified_uids, uid) ==
    IF NoneAvailable(available_uids)
    THEN [raised |-> FALSE, uids |-> available_uids]
    ELSE IF strategy = "RANDOM"
    THEN IF ~uid_manager.built THEN [raised |-> TRUE, uids |-> <<>>]
         ELSE [raised |-> FALSE,
               uids |-> IF Truthy(uid) THEN <<CHOOSE u \in uid : TRUE>> ELSE <<>>]
    ELSE IF strategy = "ALL"
    THEN [raised |-> FALSE,
          uids |-> uid_list(available_uids, is_only_allowed_miner,
                            specified_uids, metagraph)]
    ELSE [raised |-> TRUE, uids |-> <<>>]

\* Whether the call reaches self.uid_manager.get_miner_uid().
AsksManager(strategy) ==
    /\ ~NoneAvailable(available_uids)
    /\ strategy = "RANDOM"
    /\ uid_manager.built

\* Neuron.get_uids(strategy, is_only_allowed_miner, specified_uids); uid is
\* what get_miner_uid returns, {} when it is not called.
get_uids(strategy, is_only_allowed_miner, specified_uids, uid) ==
    LET result == Selection(strategy, is_only_allowed_miner, specified_uids, uid)
    IN /\ uid \in (IF AsksManager(strategy) THEN get_miner_uid(uid_manager)
                                            ELSE {{}})
       /\ uid_manager' = IF AsksManager(strategy)
                         THEN [uid_manager EXCEPT !.last = uid]
                         ELSE uid_manager
       /\ call' = [op |-> "get_uids", strategy |-> strategy,
                   is_only_allowed_miner |-> is_only_allowed_miner,
                   specified_uids |-> specified_uids,
                   available_uids |-> available_uids, picked |-> uid,
                   raised |-> result.raised, uids |-> result.uids]
       /\ UNCHANGED <<score_vars, history_vars, requests, loop_vars,
                      available_uids, metagraph, histories>>

GetUids ==
    \E strategy \in Strategies : \E is_only_allowed_miner \in BOOLEAN :
        \E specified_uids \in SpecifiedUids : \E uid \in SUBSET Uids :
            get_uids(strategy, is_only_allowed_miner, specified_uids, uid)

NextSelect ==
    \/ Refresh
    \/ ResyncMetagraph
    \/ GetUids

SpecSelect == InitHistory /\ [][NextSelect]_vars

\* ------------------------------------- the periodic tasks of Neuron.run()

\* The validator as the periodic tasks find it: nothing scored or recorded.
QuietNeuron ==
    /\ InitNeuron
    /\ alpha = AlphaDen
    /\ stored_scores = NoScores
    /\ moving_averaged_scores = [u \in Uids |-> 0]

\* What the IsAlive request to a worker comes to: a successful response, an
\* unsuccessful one, or an exception raised by the dendrite.
ProbeOutcomes == {"success", "unsuccessful", "error"}

\* self.metagraph.uids, in order.
MetagraphUids ==
    CHOOSE q \in AscendingSeqs(Uids) : Len(q) = Cardinality(Uids)

\* Neuron.check_uid(axon, uid): returns the axon when response.is_success
\* and raises otherwise; the exception of a failed call is re-raised.
check_uid(uid, outcome) ==
    [axon |-> uid, is_exception |-> outcome # "success"]

\* Results handed back in the reverse of the order of submission.
gather_reversed(tasks, probes) ==
    [i \in DOMAIN tasks |->
        check_uid(tasks[Len(tasks) + 1 - i], probes[tasks[Len(tasks) + 1 - i]])]

\* asyncio.gather(*tasks.values(), return_exceptions=True): one result per
\* task, in the order of submission, an exception being a result.
gather(tasks, probes) ==
    [i \in DOMAIN tasks |-> check_uid(tasks[i], probes[tasks[i]])]

\* A refresh that readmits no worker once the uid manager exists.
AliveAmongAvailable(probes) ==
    SelectSeq(MetagraphUids,
              LAMBDA u : /\ probes[u] = "success"
                         /\ uid_manager.built => u \in Range(available_uids))

\* Neuron.get_available_uids_is_alive(): the keys of tasks zipped with the
\* results, those with an exception for result left out.
get_available_uids_is_alive(probes) ==
    LET tasks == MetagraphUids
        results == gather(tasks, probes)
        zipped == [i \in DOMAIN tasks |-> <<tasks[i], results[i]>>]
        kept == SelectSeq(zipped, LAMBDA p : ~p[2].is_exception)
    IN [i \in DOMAIN kept |-> kept[i][1]]

\* A loop whose cycle lets the exception out of the coroutine.
AfterCycleUncaught(fails_at) ==
    IF fails_at = "none" THEN "sleeping" ELSE "dead"

\* Where update_available_uids_periodically stands after a cycle: the
\* except clause closes the whole try block, and the sleep follows it.
AfterCycle(fails_at) == "sleeping"

\* The last two of the cycles recorded.
LastTwo(q) == IF Len(q) > 2 THEN Tail(q) ELSE q

\* One cycle of the while loop of update_available_uids_periodically, from
\* the probing of the workers to the sleep.
update_available_uids_periodically(probes, fails_at) ==
    LET alive == get_available_uids_is_alive(probes)
    IN /\ pc["refresh"] = "sleeping"
       /\ update_available_uids(alive, fails_at)
       /\ pc' = [pc EXCEPT !["refresh"] = AfterCycle(fails_at)]
       /\ probed' = LastTwo(Append(probed,
                       [probes |-> probes, fails_at |-> fails_at,
                        returned |-> IF fails_at = "probe" THEN {} ELSE {alive},
                        before |-> available_uids]))
       /\ UNCHANGED <<block, rounds, organic_responses_computed, config>>

RefreshCycle ==
    \E probes \in [Uids -> ProbeOutcomes] : \E fails_at \in RefreshFailures :
        update_available_uids_periodically(probes, fails_at)

\* Where sync_metagraph stands after a cycle: the body of its while loop is
\* in no try block, so an exception of the resync leaves the coroutine.
AfterResync(raised) == IF raised THEN "dead" ELSE "sleeping"

\* One cycle of the while loop of Neuron.sync_metagraph, after its sleep:
\* the resync raises a registry error, finds the registrations as they
\* were, or finds a new one.
sync_metagraph(outcome) ==
    /\ pc["sync_metagraph"] = "sleeping"
    /\ \/ /\ outcome = "changed"
          /\ \E uid \in Uids : \E k \in DOMAIN Hotkeys : \E coldkey \in Coldkeys :
                resync_metagraph(uid, k, coldkey)
       \/ /\ outcome \in {"unchanged", "error"}
          /\ call' = [op |-> "sync_metagraph", raised |-> outcome = "error"]
          /\ UNCHANGED <<score_vars, history_vars, requests, member_vars>>
    /\ pc' = [pc EXCEPT !["sync_metagraph"] = AfterResync(outcome = "error")]
    /\ UNCHANGED <<probed, block, rounds, organic_responses_computed, config>>

SyncMetagraphCycle ==
    \E outcome \in {"changed", "unchanged", "error"} : sync_metagraph(outcome)

\* run() has created the refresh task and the resync task.
InitPeriodic ==
    /\ QuietNeuron
    /\ pc = [l \in Loops |->
                IF l \in {"refresh", "sync_metagraph"} THEN "sleeping" ELSE "off"]
    /\ probed = <<>>
    /\ block = 0
    /\ rounds = 0
    /\ organic_responses_computed = FALSE
    /\ config = [disable_set_weights |-> FALSE, synthetic_disabled |-> FALSE,
                 run_random_miner_syn_qs_interval |-> 1,
                 run_all_miner_syn_qs_interval |-> 1]

\* The refresh loop on its own.
NextRefresh == RefreshCycle

SpecRefresh == InitPeriodic /\ [][NextRefresh]_vars

\* The refresh loop beside the callers of get_uids. The uid manager is an
\* in-memory rotation over the list it is given: its constructor and its
\* resync complete, so a cycle fails in the probing or in a purge.
ManagerFailures == RefreshFailures \ {"manager"}

RefreshWithManager ==
    /\ \E alive \in AscendingSeqs(Uids) : \E fails_at \in ManagerFailures :
         update_available_uids(alive, fails_at)
    /\ UNCHANGED loop_vars

NextManager ==
    \/ RefreshWithManager
    \/ GetUids

SpecManager == InitHistory /\ [][NextManager]_vars

\* The resync loop, and what a refresh makes of the registrations it finds.
NextResync ==
    \/ SyncMetagraphCycle
    \/ Refresh

SpecResync == InitPeriodic /\ [][NextResync]_vars

\* --------------------------------------------------------- the sync loop

\* self.subtensor.tempo(netuid, block) and self.config.netuid.
Tempo == 360
Netuid == 22

\* The countdown at or below which the sync loop commits the weights, and
\* the one at or below which it computes the organic responses.
CommitThreshold == 20
OrganicThreshold == 100

\* The blocks at which the loop reads the chain: those of one epoch whose
\* countdown is 101, 100, 21, 20 and 0, the first of the next epoch
\* (countdown 360), and one of the next epoch with countdown 100.
Blocks == {236, 237, 316, 317, 337, 338, 598}

\* A countdown taken modulo the tempo itself.
BlocksModuloTempo(current_block) ==
    Tempo - ((current_block + Netuid + 1) % Tempo)

\* Neuron.blocks_until_next_epoch(), the block being read as current_block.
blocks_until_next_epoch(current_block) ==
    Tempo - ((current_block + Netuid + 1) % (Tempo + 1))

\* A validator that commits whatever its configuration says.
AlwaysSetWeights == TRUE

\* Neuron.should_set_weights()
should_set_weights == ~config.disable_set_weights

\* What reading the block comes to: the first read succeeds, the first
\* fails and the one after the subtensor is built anew succeeds, or both
\* fail and the exception leaves blocks_until_next_epoch.
ReadOutcomes == {"ok", "retried", "error"}

\* A sync loop without the except clause.
AfterSyncUncaught(raised) == IF raised THEN "dead" ELSE "sleeping"

\* Where sync stands after an iteration: the except clause closes the whole
\* body and the sleep of 60 seconds follows it.
AfterSync(raised) == "sleeping"

\* An organic task started at every iteration with 100 blocks or fewer left.
StartsTaskRegardless(raised, blocks_left) ==
    /\ ~raised
    /\ config.synthetic_disabled
    /\ blocks_left <= OrganicThreshold

\* The branch of sync() that creates one of the three organic tasks.
StartsOrganicTask(raised, blocks_left) ==
    /\ ~raised
    /\ config.synthetic_disabled
    /\ blocks_left <= OrganicThreshold
    /\ ~organic_responses_computed

\* Organic tasks started since the last iteration that saw more than 100
\* blocks left (history, kept in the record of the last iteration).
StartedSinceFar == IF call.op = "sync" THEN call.started_since_far ELSE 0

\* One iteration of the while loop of Neuron.sync: the countdown is read,
\* the weights are committed if it is due, and with the synthetic queries
\* disabled the organic responses are computed once per epoch. commit_fails
\* tells whether set_weights raises.
sync(read, commit_fails) ==
    LET blocks_left == blocks_until_next_epoch(block)
        attempted == /\ read # "error"
                     /\ blocks_left <= CommitThreshold
                     /\ should_set_weights
        raised == read = "error" \/ (attempted /\ commit_fails)
        computes == StartsOrganicTask(raised, blocks_left)
        started_since_far ==
            IF read # "error" /\ blocks_left > OrganicThreshold THEN 0
            ELSE StartedSinceFar + (IF computes THEN 1 ELSE 0)
    IN /\ pc["sync"] = "sleeping"
       /\ commit_fails => attempted
       /\ organic_responses_computed' =
             IF raised \/ ~config.synthetic_disabled
             THEN organic_responses_computed
             ELSE blocks_left <= OrganicThreshold
       /\ pc' = [pc EXCEPT !["sync"] = AfterSync(raised)]
       /\ call' = [op |-> "sync", read |-> read,
                   blocks_left |-> IF read = "error" THEN {} ELSE {blocks_left},
                   attempted |-> attempted,
                   committed |-> attempted /\ ~commit_fails,
                   computes |-> computes,
                   started_since_far |-> started_since_far,
                   raised |-> raised]
       /\ UNCHANGED <<score_vars, history_vars, requests, member_vars,
                      probed, block, rounds, config>>

\* The chain produces blocks while the loop sleeps.
NewBlock ==
    /\ \E b \in Blocks : b > block /\ block' = b
    /\ UNCHANGED <<score_vars, history_vars, call, requests, member_vars,
                   pc, probed, rounds, organic_responses_computed, config>>

SyncIteration ==
    \E read \in ReadOutcomes : \E commit_fails \in BOOLEAN :
        sync(read, commit_fails)

\* run() has created the sync task.
InitSync ==
    /\ QuietNeuron
    /\ pc = [l \in Loops |-> IF l = "sync" THEN "sleeping" ELSE "off"]
    /\ probed = <<>>
    /\ block \in Blocks
    /\ rounds = 0
    /\ organic_responses_computed = FALSE
    /\ config \in {c \in Configs : /\ c.run_random_miner_syn_qs_interval = 1
                                    /\ c.run_all_miner_syn_qs_interval = 1}

NextSync ==
    \/ NewBlock
    \/ SyncIteration

SpecSync == InitSync /\ [][NextSync]_vars

\* ---------------------------------------------------- the LLM scoring

\* The keys of the messages handed to llm_processing: one message per item
\* to score.
Items == {1, 2}

\* The lists of scoring sources: the one of the code, and the one with the
\* OpenAI source, which the code has commented out, ahead of it.
ScoringSourceLists == {<<"Subnet18">>, <<"OpenAI", "Subnet18">>}

\* What a source says of an item: a text with a digit in it, a text
\* without one, or None.
ScoreTexts == {"numeric", "text", "none"}

\* What a source comes to when asked: it raises, and get_score_by_source
\* returns None, or it has a score text for each item it is asked about.
Answers ==
    {[raised |-> TRUE, texts |-> [k \in Items |-> "none"]]}
        \cup [raised : {FALSE}, texts : [Items -> ScoreTexts]]

\* get_score_by_source(messages, source), for the source at position i of
\* the list: None ({}), or the dict ({d}) with one item per message, in the
\* order of the messages; by records the source.
get_score_by_source(messages, i, answers) ==
    IF answers[i].raised THEN {}
    ELSE {[j \in DOMAIN messages |->
             [key |-> messages[j],
              score_text |-> [text |-> answers[i].texts[messages[j]],
                             by |-> i]]]}

\* The position of key in the dict d, 0 if it has none.
PositionOf(d, key) ==
    IF \E j \in DOMAIN d : d[j].key = key
    THEN CHOOSE j \in DOMAIN d : d[j].key = key
    ELSE 0

\* dict.update(other): the keys d has keep their place and take the new
\* value, the others are added at the end in the order of other.
RECURSIVE DictUpdate(_, _)
DictUpdate(d, other) ==
    IF other = <<>> THEN d
    ELSE LET item == Head(other)
             at == PositionOf(d, item.key)
         IN DictUpdate(IF at = 0 THEN Append(d, item)
                                 ELSE [d EXCEPT ![at] = item],
                       Tail(other))

\* A loop that hands every message to the next source again.
AllMessagesAgain(current_score_responses, messages) == messages

\* The messages that go to the next source: those whose item, by position
\* in zip(current_score_responses.items(), messages), has a score text
\* that is not None and holds no digit.
Unscored(current_score_responses, messages) ==
    LET n == IF Len(current_score_responses) < Len(messages)
             THEN Len(current_score_responses) ELSE Len(messages)
        zipped == [j \in 1..n |-> <<current_score_responses[j], messages[j]>>]
        kept == SelectSeq(zipped, LAMBDA p : p[1].score_text.text = "text")
    IN [j \in DOMAIN kept |-> kept[j][2]]

\* The for loop of RewardLLM.llm_processing from the source at position i
\* on; asked records the messages handed to each source.
RECURSIVE ScoreFrom(_, _, _, _, _, _)
ScoreFrom(i, scoring_sources, messages, answers, score_responses, asked) ==
    IF i > Len(scoring_sources)
    THEN [score_responses |-> score_responses, asked |-> asked]
    ELSE LET current == get_score_by_source(messages, i, answers)
             now_asked == Append(asked, messages)
         IN IF current = {} \/ current = {<<>>}
            THEN ScoreFrom(i + 1, scoring_sources, messages, answers,
                           score_responses, now_asked)
            ELSE LET current_score_responses == CHOOSE d \in current : TRUE
                     updated == DictUpdate(score_responses, current_score_responses)
                     left == Unscored(current_score_responses, messages)
                 IN IF left = <<>>
                    THEN [score_responses |-> updated, asked |-> now_asked]
                    ELSE ScoreFrom(i + 1, scoring_sources, left, answers,
                                   updated, now_asked)

\* RewardLLM.llm_processing(messages)
llm_processing(messages, scoring_sources, answers) ==
    LET result == ScoreFrom(1, scoring_sources, messages, answers, <<>>, <<>>)
    IN /\ call' = [op |-> "llm_processing", messages |-> messages,
                   scoring_sources |-> scoring_sources, answers |-> answers,
                   score_responses |-> result.score_responses,
                   asked |-> result.asked]
       /\ UNCHANGED <<score_vars, history_vars, requests, member_vars, loop_vars>>

\* The function keeps nothing between calls: a behaviour makes one call.
LlmProcessing ==
    /\ call.op = "init"
    /\ \E messages \in AscendingSeqs(Items) :
         \E scoring_sources \in ScoringSourceLists :
             \E answers \in [DOMAIN scoring_sources -> Answers] :
                 llm_processing(messages, scoring_sources, answers)

NextLLM == LlmProcessing

SpecLLM == InitHistory /\ [][NextLLM]_vars

\* ------------------------------------------- the task-validation penalty

\* The most responses a batch holds and the most criteria a task has.
MaxResponses == 2
MaxCriteria == 2

\* The penalties a criterion gives a completion: 0, 1/2 and 1, over Scale.
PenaltyLevels == {0, Scale \div 2, Scale}

\* torch.zeros(len(completions)): one accumulator per response.
Zeros(n) == [i \in 1..n |-> 0]

\* A loop that assigns the vector of each criterion instead of adding it.
KeepLast(accumulated_penalties, evaluations) ==
    IF evaluations = <<>> THEN accumulated_penalties
    ELSE evaluations[Len(evaluations)]

\* The for loop over task.criteria: add_ adds the vector a criterion's
\* evaluate returns to the accumulated penalties, in place.
RECURSIVE Accumulate(_, _)
Accumulate(accumulated_penalties, evaluations) ==
    IF evaluations = <<>> THEN accumulated_penalties
    ELSE Accumulate([i \in DOMAIN accumulated_penalties |->
                        accumulated_penalties[i] + Head(evaluations)[i]],
                    Tail(evaluations))

\* TaskValidationPenaltyModel.calculate_penalties(task, responses), for n
\* responses; evaluations holds, per criterion of the task, the vector its
\* evaluate returns for the completions.
calculate_penalties(n, evaluations) ==
    /\ call' = [op |-> "calculate_penalties", responses |-> n,
                evaluations |-> evaluations,
                accumulated_penalties |-> Accumulate(Zeros(n), evaluations)]
    /\ UNCHANGED <<score_vars, history_vars, requests, member_vars, loop_vars>>

\* The function keeps nothing between calls: a behaviour makes one call.
CalculatePenalties ==
    /\ call.op = "init"
    /\ \E n \in 0..MaxResponses : \E m \in 0..MaxCriteria :
         \E evaluations \in [1..m -> [1..n -> PenaltyLevels]] :
             calculate_penalties(n, evaluations)

NextPenalty == CalculatePenalties

SpecPenalty == InitHistory /\ [][NextPenalty]_vars

\* ------------------------------------------------------ the query loops

\* The most unfinished rounds a behaviour holds.
MaxRounds == 4

\* The query loops run() creates under the configuration c: the RANDOM
\* loop when synthetic queries are enabled and the random interval is
\* positive, the ALL loop when they are enabled and the all interval is
\* positive, the organic loop always.
Started(l, c) ==
    \/ l = "RANDOM" /\ ~c.synthetic_disabled /\ c.run_random_miner_syn_qs_interval > 0
    \/ l = "ALL" /\ ~c.synthetic_disabled /\ c.run_all_miner_syn_qs_interval > 0
    \/ l = "organic"

\* The interval of the organic loop, in seconds.
three_hours_in_seconds == 10800

\* The interval argument run() passes to the loop l: both synthetic loops
\* are given run_all_miner_syn_qs_interval.
IntervalOf(l, c) ==
    IF l = "organic" THEN three_hours_in_seconds
    ELSE c.run_all_miner_syn_qs_interval

\* A loop that creates its tasks whatever the available uids are.
TasksCreatedAnyway(l, available) == IF l = "organic" THEN 2 ELSE 1

\* The tasks an iteration of the loop l creates with create_task: none
\* when "not self.available_uids", else one synthetic round (advanced or
\* basic), or the two organic rounds.
TasksCreated(l, available) ==
    IF available = <<>> THEN 0
    ELSE IF l = "organic" THEN 2 ELSE 1

\* One iteration of the while loop of run_with_interval (l is RANDOM or
\* ALL) or of run_organic_with_interval, up to its sleep: of 10 seconds
\* after "continue" (retry), of the interval after the tasks are created.
run_with_interval(l) ==
    LET created == TasksCreated(l, available_uids)
    IN /\ pc[l] \in {"due", "retry", "sleeping"}
       /\ rounds + created <= MaxRounds
       /\ rounds' = rounds + created
       /\ pc' = [pc EXCEPT ![l] = IF available_uids = <<>> THEN "retry"
                                                            ELSE "sleeping"]
       /\ call' = [op |-> "query_loop", loop |-> l, was |-> pc[l],
                   available_uids |-> available_uids, created |-> created,
                   sleeps |-> IF available_uids = <<>> THEN 10
                              ELSE IntervalOf(l, config),
                   rounds |-> rounds, raised |-> FALSE]
       /\ UNCHANGED <<score_vars, history_vars, requests, member_vars,
                      probed, block, organic_responses_computed, config>>

\* A round that was created comes to its end, however long it took.
RoundEnds ==
    /\ rounds > 0
    /\ rounds' = rounds - 1
    /\ UNCHANGED <<score_vars, history_vars, call, requests, member_vars,
                   pc, probed, block, organic_responses_computed, config>>

QueryLoopStep == \E l \in QueryLoops : run_with_interval(l)

\* run() has created the query loops its configuration asks for.
InitRun ==
    /\ QuietNeuron
    /\ config \in {c \in Configs : ~c.disable_set_weights}
    /\ pc = [l \in Loops |-> IF l \in QueryLoops /\ Started(l, config)
                              THEN "due" ELSE "off"]
    /\ probed = <<>>
    /\ block = 0
    /\ rounds = 0
    /\ organic_responses_computed = FALSE

NextRun ==
    \/ QueryLoopStep
    \/ RoundEnds
    \/ Refresh

SpecRun == InitRun /\ [][NextRun]_vars

\* The event loop resumes every query loop whose sleep is over, and the
\* timeouts of a round's calls bring every round to its end.
FairSpecRun ==
    /\ SpecRun
    /\ \A l \in QueryLoops : WF_vars(run_with_interval(l))
    /\ WF_vars(RoundEnds)

\* ------------------------------------------- the search result aggregation

\* The most responses handed to aggregate_search_results.
MaxSynapses == 2

\* The tools a request names: two of the keys of field_mapping and a tool
\* that is no key of it.
ToolNames == {"Twitter Search", "Web Search", "Bing Search"}

\* The response fields of the two, and the value None.
FieldNames == {"miner_tweets", "search_results"}
None == "None"

\* field_mapping.get(tool)
field_mapping(tool) ==
    CASE tool = "Twitter Search" -> "miner_tweets"
      [] tool = "Web Search" -> "search_results"
      [] OTHER -> None

\* What a field of a response holds: nothing (None or empty), a list, or
\* a dict.
FieldValues ==
    {[type |-> "none", items |-> <<>>], [type |-> "list", items |-> <<"r1">>],
     [type |-> "list", items |-> <<"r2">>], [type |-> "dict", items |-> <<"r3">>]}

\* aggregated after the body of the inner loop for one response and one
\* mapped tool: a list extends the list under the field name (the
\* AttributeError of extending a dict is passed over), a dict replaces
\* what is there, a falsy result changes nothing.
AggregateField(aggregated, synapse, field_name) ==
    LET result == synapse[field_name]
        held == field_name \in DOMAIN aggregated
    IN IF result.type = "none" THEN aggregated
       ELSE IF result.type = "list" /\ held /\ aggregated[field_name].type = "dict"
       THEN aggregated
       ELSE [k \in DOMAIN aggregated \cup {field_name} |->
                IF k # field_name THEN aggregated[k]
                ELSE IF result.type = "dict" THEN result
                ELSE [type |-> "list",
                      items |-> (IF held THEN aggregated[k].items ELSE <<>>)
                                    \o result.items]]

\* The two nested loops, over the responses and over the tools. getattr
\* with the field name None raises a TypeError, which no clause catches.
RECURSIVE AggregateTools(_, _, _)
AggregateTools(state, synapse, tools) ==
    IF tools = <<>> \/ state.raised THEN state
    ELSE LET field_name == field_mapping(Head(tools))
         IN AggregateTools(
                IF field_name = None
                THEN [state EXCEPT !.raised = TRUE]
                ELSE [state EXCEPT !.aggregated =
                         AggregateField(@, synapse, field_name)],
                synapse, Tail(tools))

RECURSIVE AggregateResponses(_, _, _)
AggregateResponses(state, responses, tools) ==
    IF responses = <<>> \/ state.raised THEN state
    ELSE AggregateResponses(AggregateTools(state, Head(responses), tools),
                            Tail(responses), tools)

\* The last loop: a field name with no entry gets the empty list.
FillMissing(aggregated, tools) ==
    LET names == {field_mapping(tools[i]) : i \in DOMAIN tools}
    IN [k \in DOMAIN aggregated \cup names |->
           IF k \in DOMAIN aggregated THEN aggregated[k]
           ELSE [type |-> "list", items |-> <<>>]]

\* aggregate_search_results(responses, tools)
aggregate_search_results(responses, tools) ==
    LET looped == AggregateResponses([raised |-> FALSE, aggregated |-> <<>>],
                                     responses, tools)
    IN /\ call' = [op |-> "aggregate", responses |-> responses, tools |-> tools,
                   raised |-> looped.raised,
                   aggregated |-> IF looped.raised THEN <<>>
                                  ELSE FillMissing(looped.aggregated, tools)]
       /\ UNCHANGED <<score_vars, history_vars, requests, member_vars, loop_vars>>

\* The function keeps nothing between calls: a behaviour makes one call.
AggregateSearchResults ==
    /\ call.op = "init"
    /\ \E n \in 0..MaxSynapses : \E responses \in [1..n -> [FieldNames -> FieldValues]] :
         \E tools \in DistinctSeqs(ToolNames) \cup {<<>>} :
             aggregate_search_results(responses, tools)

NextAggregate == AggregateSearchResults

SpecAggregate == InitHistory /\ [][NextAggregate]_vars

\* ------------------------------------------ the update in floating point

\* The scores are a torch float tensor: every product and every sum of the
\* update is rounded to the nearest representable number, ties to even.
\* The model keeps MantissaBits significant bits, and the numbers of [0, 1]
\* that are multiples of 1 / FloatUnit; a product of two of them is held
\* over FloatUnit * FloatUnit.
MantissaBits == 4
FractionBits == 6
FloatUnit == 2 ^ FractionBits

\* The position of the leading bit of n > 0.
LeadingBit(n) ==
    CHOOSE e \in 0..(2 * FractionBits + 1) : 2 ^ e <= n /\ n < 2 ^ (e + 1)

\* n rounded to MantissaBits significant bits, to nearest, ties to even.
RoundToNearestEven(n) ==
    IF n = 0 THEN 0
    ELSE LET e == LeadingBit(n)
             quantum == IF e + 1 > MantissaBits THEN 2 ^ (e + 1 - MantissaBits)
                                                ELSE 1
             below == (n \div quantum) * quantum
             rest == n - below
         IN IF \/ 2 * rest > quantum
               \/ 2 * rest = quantum /\ (n \div quantum) % 2 = 1
            THEN below + quantum
            ELSE below

\* The representable numbers of [0, 1], over FloatUnit.
Floats == {n \in 0..FloatUnit : RoundToNearestEven(n) = n}

\* config.neuron.moving_average_alpha, a Python float, over FloatUnit: a
\* quarter, which the tensor's type represents, and 13/64, whose
\* complement it does not.
FloatAlphas == {16, 13}

\* alpha * scattered_rewards + (1 - alpha) * self.moving_averaged_scores on
\* the tensor: alpha and 1 - alpha are rounded to the tensor's type, each
\* product is rounded, and so is the sum. The result is over
\* FloatUnit * FloatUnit.
BlendRounded(a, scattered, old) ==
    [u \in Uids |->
        RoundToNearestEven(
            RoundToNearestEven(RoundToNearestEven(a) * scattered[u])
              + RoundToNearestEven(RoundToNearestEven(FloatUnit - a) * old[u]))]

\* Neuron.update_moving_averaged_scores(uids, rewards) on the float tensor
\* old, with the smoothing constant a.
update_in_floating_point(old, a, uids, rewards) ==
    LET scattered_rewards == Scatter(old, uids, rewards)
    IN /\ call' = [op |-> "float_update", old |-> old, alpha |-> a,
                   uids |-> uids, rewards |-> rewards,
                   new |-> BlendRounded(a, scattered_rewards, old)]
       /\ UNCHANGED <<score_vars, history_vars, requests, member_vars, loop_vars>>

\* The function is applied once to each input.
UpdateInFloatingPoint ==
    /\ call.op = "init"
    /\ \E old \in [Uids -> Floats] : \E a \in FloatAlphas :
         \E uids \in {q \in DistinctSeqs(Uids) \cup {<<>>} : Len(q) <= 1} :
             \E rewards \in [DOMAIN uids -> {0, FloatUnit}] :
                 update_in_floating_point(old, a, uids, rewards)

NextFloat == UpdateInFloatingPoint

SpecFloat == InitHistory /\ [][NextFloat]_vars

\* ------------------------------------------------- the epoch countdown

\* The highest block at which the countdown is read: past two epochs.
MaxBlock == 800

\* blocks_until_next_epoch() read at a block and at the block after it.
read_countdown(current_block) ==
    /\ call' = [op |-> "countdown", current_block |-> current_block,
                blocks_left |-> blocks_until_next_epoch(current_block),
                at_next_block |-> blocks_until_next_epoch(current_block + 1)]
    /\ UNCHANGED <<score_vars, history_vars, requests, member_vars, loop_vars>>

\* The function is applied once to each block.
ReadCountdown ==
    /\ call.op = "init"
    /\ \E current_block \in 0..MaxBlock : read_countdown(current_block)

NextEpoch == ReadCountdown

SpecEpoch == InitHistory /\ [][NextEpoch]_vars

\* ---------------------------------------------- the calls to the LLM API

\* range(2): the attempts call_openai makes at most.
Attempts == 2

\* The contents a completion can carry.
Contents == {"0.5", "Score: 9", ""}

\* The arguments of call_openai, which every attempt passes on.
OpenAIArgs ==
    [temperature : {0, 1}, model : {"gpt-3.5-turbo", "gpt-4-1106-preview"},
     seed : {0, 1234}, response_format : {None, "json_object"}]

\* A loop that never runs out of attempts.
AlwaysAttemptsLeft(attempt) == TRUE

\* for attempt in range(2): whether another attempt follows attempt
\* number attempt (1 for the first).
AttemptsLeft(attempt) == attempt < Attempts

\* call_openai(messages, temperature, model, seed, response_format) is
\* entered: the first attempt is about to be made.
call_openai(args) ==
    /\ call.op = "init"
    /\ call' = [op |-> "call_openai", args |-> args, pc |-> "calling",
                requests |-> <<>>, outcomes |-> <<>>, waits |-> 0,
                returned |-> {}]
    /\ UNCHANGED <<score_vars, history_vars, requests, member_vars, loop_vars>>

\* await client.chat.completions.create(...) and the reading of
\* choices[0].message.content: an exception, or the content, which is
\* returned.
openai_attempt(outcome) ==
    /\ call.op = "call_openai"
    /\ call.pc = "calling"
    /\ call' = [call EXCEPT
                  !.requests = Append(@, call.args),
                  !.outcomes = Append(@, outcome),
                  !.pc = IF outcome = "error" THEN "sleeping" ELSE "returned",
                  !.returned = IF outcome = "error" THEN {} ELSE {outcome}]
    /\ UNCHANGED <<score_vars, history_vars, requests, member_vars, loop_vars>>

\* await asyncio.sleep(0.5) in the except block ends: the next attempt, or
\* the return None after the loop.
openai_sleep ==
    /\ call.op = "call_openai"
    /\ call.pc = "sleeping"
    /\ call' = [call EXCEPT
                  !.waits = @ + 1,
                  !.pc = IF AttemptsLeft(Len(call.outcomes))
                         THEN "calling" ELSE "returned",
                  !.returned = IF AttemptsLeft(Len(call.outcomes))
                               THEN {} ELSE {None}]
    /\ UNCHANGED <<score_vars, history_vars, requests, member_vars, loop_vars>>

CallOpenAI == \E args \in OpenAIArgs : call_openai(args)

OpenAIAttempt == \E outcome \in Contents \cup {"error"} : openai_attempt(outcome)

NextOpenAI ==
    \/ CallOpenAI
    \/ OpenAIAttempt
    \/ openai_sleep

SpecOpenAI == InitHistory /\ [][NextOpenAI]_vars

\* ------------------------------------------------- the HTTP endpoints

\* The routes of the FastAPI application.
Endpoints ==
    {"/search", "/search/links/web", "/search/links/twitter", "/search/links",
     "/twitter/search", "/twitter/urls", "/twitter/{id}", "/web/search", "/"}

\* neurons.validators.env.EXPECTED_ACCESS_KEY
EXPECTED_ACCESS_KEY == "key"

\* The values of the access_key header: None when the request has none.
AccessKeys == {None, EXPECTED_ACCESS_KEY, "other"}

\* The scraper validator a handler calls: none for the health check.
ValidatorOf(endpoint) ==
    CASE endpoint \in {"/search", "/search/links/web", "/search/links/twitter",
                       "/search/links"} -> "advanced"
      [] endpoint \in {"/twitter/search", "/twitter/urls", "/twitter/{id}"} -> "basic"
      [] endpoint = "/web/search" -> "basic_web"
      [] OTHER -> None

\* The handlers that go through the validator's organic(), which records
\* the responses in its organic history.
CallsOrganic(endpoint) ==
    endpoint \in Endpoints \ {"/twitter/urls", "/twitter/{id}", "/"}

\* A test that turns away only the requests without the header.
RejectsMissingKey(access_key) == access_key = None

\* if access_key != EXPECTED_ACCESS_KEY: raise HTTPException(status_code=401)
Rejects(access_key) == access_key # EXPECTED_ACCESS_KEY

\* The status of a request that passed the test: /search answers with the
\* stream before the query runs; the two tweet lookups answer 404 when
\* they find nothing; an exception of the query gives 500.
StatusOf(endpoint, outcome) ==
    IF endpoint \in {"/search", "/"} THEN 200
    ELSE IF outcome = "error" THEN 500
    ELSE IF outcome = "empty" /\ endpoint \in {"/twitter/urls", "/twitter/{id}"}
    THEN 404
    ELSE 200

\* One request to an endpoint, from the test of the access key to the
\* response: target is the worker the validator queries, if it queries one.
http_request(endpoint, access_key, outcome, target) ==
    LET kind == ValidatorOf(endpoint)
        queries == ~Rejects(access_key) /\ kind # None
        records == /\ queries
                   /\ CallsOrganic(endpoint)
                   /\ outcome = "ok"
                   /\ target # {}
    IN /\ target \in (IF queries /\ available_uids # <<>>
                       THEN {{uid} : uid \in Range(available_uids)}
                       ELSE {{}})
       /\ records => next_id <= Cardinality(Uids)
       /\ histories' =
             IF records
             THEN [histories EXCEPT ![kind] =
                     AppendEntry(@, metagraph[CHOOSE uid \in target : TRUE].hotkey,
                                 next_id, now)]
             ELSE histories
       /\ next_id' = IF records THEN next_id + 1 ELSE next_id
       /\ call' = [op |-> "http", endpoint |-> endpoint,
                   access_key |-> access_key,
                   status |-> IF Rejects(access_key) THEN 401
                              ELSE StatusOf(endpoint, outcome),
                   dispatched |-> target, pre |-> histories]
       /\ UNCHANGED <<score_vars, organic_history, stored_history, now, requests,
                      loop_vars, available_uids, uid_manager, metagraph>>

HttpRequest ==
    \E endpoint \in Endpoints : \E access_key \in AccessKeys :
        \E outcome \in {"ok", "empty", "error"} : \E target \in SUBSET Uids :
            http_request(endpoint, access_key, outcome, target)

NextApi ==
    \/ HttpRequest
    \/ Refresh

SpecApi == InitHistory /\ [][NextApi]_vars

\* ------------------------------------------------- the SerpAPI wrappers

\* The wrappers a process constructs.
MaxWrappers == 3

\* SerpAPIWrapper.params as the class body defines it.
DefaultParams ==
    [engine |-> "google", google_domain |-> "google.com", gl |-> "us", hl |-> "en"]

\* The params argument of the constructor, key by key: None for a key the
\* caller does not pass. The Bing tool passes {"engine": "bing"}.
CustomParams == [engine : {None, "bing"}, gl : {None, "uk"}]

\* if params: an empty dict and None are false.
Given(params) == \E k \in DOMAIN params : params[k] # None

\* dict.update(params)
UpdateDict(d, params) ==
    [k \in DOMAIN d |->
        IF k \in DOMAIN params /\ params[k] # None THEN params[k] ELSE d[k]]

\* The class attribute SerpAPIWrapper.params, and the wrappers constructed
\* so far; no wrapper has a params attribute of its own.
ClassParams == IF call.op = "serp" THEN call.params ELSE DefaultParams

Wrappers == IF call.op = "serp" THEN call.wrappers ELSE <<>>

\* SerpAPIWrapper.get_params(query) of a wrapper: self.params is found on
\* the class.
get_params(wrapper, query) ==
    [params |-> ClassParams, api_key |-> wrapper.serpapi_api_key, q |-> query]

\* SerpAPIWrapper(serpapi_api_key, params): self.params.update(params)
\* updates the dict of the class.
SerpAPIWrapper(serpapi_api_key, params) ==
    /\ call.op \in {"init", "serp"}
    /\ Len(Wrappers) < MaxWrappers
    /\ call' = [op |-> "serp",
                params |-> IF Given(params) THEN UpdateDict(ClassParams, params)
                           ELSE ClassParams,
                wrappers |-> Append(Wrappers,
                                [serpapi_api_key |-> serpapi_api_key,
                                 given |-> params]),
                before |-> ClassParams]
    /\ UNCHANGED <<score_vars, history_vars, requests, member_vars, loop_vars>>

NewWrapper ==
    \E serpapi_api_key \in {"k1", "k2"} : \E params \in CustomParams :
        SerpAPIWrapper(serpapi_api_key, params)

NextSerp == NewWrapper

SpecSerp == InitHistory /\ [][NextSerp]_vars

\* ------------------------------------------- claims: the reputation store

\* The listed uids of the last update, by position.
Listed == DOMAIN call.uids

\* AlphaDen * (alpha * reward + (1 - alpha) * old), for numerators over Scale.
Blend(reward, old) == alpha * reward + (AlphaDen - alpha) * old

Dist(x, y) == IF x >= y THEN x - y ELSE y - x

\* C1: with loaded scores, rewards in [0,1] and alpha in (0,1], every
\* worker's score is in [0,1] after any sequence of updates.
C1_ScoresInUnitInterval ==
    \A u \in Uids :
        moving_averaged_scores[u] >= 0 /\ moving_averaged_scores[u] <= Scale

\* C1 witness: after the last update of a run a score lies strictly inside.
C1_Witness ==
    /\ call.op = "update"
    /\ nUpdates = MaxUpdates
    /\ alpha < AlphaDen
    /\ \E u \in Uids :
         moving_averaged_scores[u] > 0 /\ moving_averaged_scores[u] < Scale

\* C2: after update_moving_averaged_scores(uids, rewards), the score of each
\* listed uid is alpha * (its paired reward) + (1 - alpha) * (its old score).
C2_UpdateIsMovingAverage ==
    call.op = "update" =>
        \A i \in Listed :
            AlphaDen * moving_averaged_scores[call.uids[i]]
                = Blend(call.rewards[i], call.old[call.uids[i]])

\* C2 witness: an update of two uids with different rewards and alpha < 1.
C2_Witness ==
    /\ call.op = "update"
    /\ Len(call.uids) = 2
    /\ call.rewards[1] # call.rewards[2]
    /\ alpha < AlphaDen
    /\ moving_averaged_scores # call.old

\* C3: an update with reward r never moves the worker's score away from r
\* and never moves it across r, so repeated updates with r approach r.
C3_MovesTowardReward ==
    call.op = "update" =>
        \A i \in Listed :
            LET r == call.rewards[i]
                before == call.old[call.uids[i]]
                after == moving_averaged_scores[call.uids[i]]
            IN /\ Dist(after, r) <= Dist(before, r)
               /\ before >= r => after >= r
               /\ before <= r => after <= r

\* C3 witness: a worker updated twice in a row with the same reward, whose
\* score came strictly closer to it without reaching it.
C3_Witness ==
    /\ call.op = "update"
    /\ \E i \in Listed :
         /\ call.uids[i] \in call.repeated
         /\ Dist(moving_averaged_scores[call.uids[i]], call.rewards[i]) > 0
         /\ Dist(moving_averaged_scores[call.uids[i]], call.rewards[i])
              < Dist(call.old[call.uids[i]], call.rewards[i])

PersistedScores ==
    IF stored_scores = NoScores THEN loaded_scores
    ELSE CHOOSE v \in stored_scores : TRUE

\* C5, as claimed: at any moment the stored vector is the in-memory vector
\* or is behind it by one update.
C5_StoreLagsAtMostOneUpdate ==
    \/ PersistedScores = moving_averaged_scores
    \/ call.op = "update" /\ PersistedScores = call.old

\* C5, amended: an update that returns normally has written the new vector,
\* so the store then holds the in-memory vector; the store is behind only
\* by updates whose write failed.
C5_ReturnedUpdateIsStored ==
    /\ (call.op = "update" /\ ~call.raised)
         => (stored_scores = {moving_averaged_scores} /\ unsaved = 0)
    /\ unsaved > 0 => (call.op = "update" /\ call.raised)

\* C5 witness: an update that changed the scores and returned normally.
C5_Witness ==
    /\ call.op = "update"
    /\ ~call.raised
    /\ moving_averaged_scores # call.old

\* C6: when the write fails, the in-memory vector still holds the round's
\* updated scores.
C6_FailedSaveKeepsUpdate ==
    (call.op = "update" /\ call.raised) =>
        \A u \in Uids :
            AlphaDen * moving_averaged_scores[u]
                = Blend(call.scattered[u], call.old[u])

\* C6 witness: a failed write after an update that changed the scores.
C6_Witness ==
    /\ call.op = "update"
    /\ call.raised
    /\ moving_averaged_scores # call.old
    /\ stored_scores # {moving_averaged_scores}

\* --------------------------------------------- claims: concurrent rounds

RECURSIVE ApplyInOrder(_, _)
\* The vector after the updates of the rounds of order, one after another.
ApplyInOrder(scores, order) ==
    IF order = <<>> THEN scores
    ELSE LET r == round[Head(order)]
         IN ApplyInOrder(
                MovingAverage(alpha, Scatter(scores, r.uids, r.rewards), scores),
                Tail(order))

Finished == {t \in Tasks : round[t].pc = "done"}

Orders(S) ==
    {q \in [1..Cardinality(S) -> S] :
        \A i, j \in 1..Cardinality(S) : i # j => q[i] # q[j]}

\* C7: the score vector is the one obtained by applying the updates of the
\* finished rounds one after another in some order.
C7_UpdatesSerialized ==
    \E order \in Orders(Finished) :
        moving_averaged_scores = ApplyInOrder(loaded_scores, order)

\* C7 witness: two rounds that overlapped and updated the same worker.
C7_Witness ==
    \E t1, t2 \in Finished :
        /\ t1 # t2
        /\ round[t1].began = round[t2].began
        /\ Range(round[t1].uids) \cap Range(round[t2].uids) # {}
        /\ moving_averaged_scores # loaded_scores

\* --------------------------------------------- claims: organic history

\* The entries of history h, each with its worker: <<uid, entry>>.
EntriesOf(h) ==
    UNION {{<<h[i].uid, h[i].values[k]>> : k \in DOMAIN h[i].values} :
           i \in DOMAIN h}

\* The entries of worker uid in h, in list order (<<>> when uid is no key).
ValuesOf(h, uid) ==
    IF IndexOf(h, uid) = 0 THEN <<>> ELSE h[IndexOf(h, uid)].values

\* The start of the retention window of the last operation.
WindowStart == call.now - HISTORY_EXPIRY_TIME

CleaningOps == {"clean", "get_random", "get_latest", "get_no_history"}

ReadOps == {"get_random", "get_latest", "get_no_history"}

\* No key of h has an empty list, and no uid is a key twice.
NoEmptyLists(h) ==
    /\ \A i \in DOMAIN h : h[i].values # <<>>
    /\ \A i, j \in DOMAIN h : i # j => h[i].uid # h[j].uid

\* C8: _clean_organic_history removes exactly the entries with
\* start_time < now - HISTORY_EXPIRY_TIME, keeps every other entry, and
\* removes every worker whose list became empty.
C8_CleanRemovesExactlyExpired ==
    call.op = "clean" =>
        /\ EntriesOf(organic_history)
             = {p \in EntriesOf(call.pre) : ~(p[2].start_time < WindowStart)}
        /\ NoEmptyLists(organic_history)
        /\ \A u \in Uids :
             Len(ValuesOf(organic_history, u)) <= Len(ValuesOf(call.pre, u))

\* C8 witness: a clean that removed an expired entry and its worker, and
\* kept an entry recorded exactly one window ago.
C8_Witness ==
    /\ call.op = "clean"
    /\ \E p \in EntriesOf(call.pre) :
         /\ p[2].start_time < WindowStart
         /\ IndexOf(organic_history, p[1]) = 0
    /\ \E p \in EntriesOf(organic_history) : p[2].start_time = WindowStart

\* C9: every read operation prunes first: afterwards the history holds only
\* entries inside the retention window and no empty list, and the result is
\* computed from the entries inside the window only.
C9_ReadsPruneFirst ==
    call.op \in ReadOps =>
        /\ \A p \in EntriesOf(organic_history) : p[2].start_time >= WindowStart
        /\ NoEmptyLists(organic_history)
        /\ (call.op \in {"get_random", "get_latest"} /\ ~call.raised) =>
             \A i \in DOMAIN call.uids :
                 /\ <<call.uids[i], call.responses[i]>> \in EntriesOf(call.pre)
                 /\ call.responses[i].start_time >= WindowStart
        /\ (call.op = "get_no_history" /\ ~call.raised) =>
             Range(call.uids)
               = {u \in Range(call.available_uids) :
                    ~\E p \in EntriesOf(call.pre) :
                        p[1] = u /\ p[2].start_time >= WindowStart}

\* C9 witness: a read that returned an entry of one worker while another
\* entry of the history had expired.
C9_Witness ==
    /\ call.op \in {"get_random", "get_latest"}
    /\ ~call.raised
    /\ call.uids # <<>>
    /\ \E p \in EntriesOf(call.pre) : p[2].start_time < WindowStart

\* Each worker's entries are in the order they were recorded.
InsertionOrdered(h) ==
    \A i \in DOMAIN h :
        \A k, m \in DOMAIN h[i].values :
            k < m => h[i].values[k].id < h[i].values[m].id

\* Entries of worker u that the last operation evicted, and those it kept.
Evicted(u) == Range(ValuesOf(call.pre, u)) \ Range(ValuesOf(organic_history, u))

Kept(u) == Range(ValuesOf(call.pre, u)) \cap Range(ValuesOf(organic_history, u))

\* Worker u's entries were recorded with non-decreasing start_time.
RecordedInTimeOrder(u) ==
    \A e1, e2 \in Range(ValuesOf(call.pre, u)) :
        e1.id < e2.id => e1.start_time <= e2.start_time

\* C10, as claimed: entries stay in insertion order, and no entry is
\* evicted while an entry of the same worker recorded before it is present.
C10_EvictionIsFifo ==
    /\ InsertionOrdered(organic_history)
    /\ call.op \in CleaningOps =>
         \A u \in Uids : \A e \in Evicted(u) : \A e0 \in Kept(u) : e.id < e0.id

\* C10, amended: entries stay in insertion order, and eviction is by age:
\* no entry is evicted while an entry of the same worker with the same or
\* an earlier start_time is present; it is first-in-first-out for a worker
\* whose entries were recorded with non-decreasing start_time.
C10_OrderKeptEvictionByAge ==
    /\ InsertionOrdered(organic_history)
    /\ call.op \in CleaningOps =>
         \A u \in Uids :
             /\ \A e \in Evicted(u) : \A e0 \in Kept(u) :
                    e.start_time < e0.start_time
             /\ RecordedInTimeOrder(u) =>
                    \A e \in Evicted(u) : \A e0 \in Kept(u) : e.id < e0.id

\* C10 witness: an eviction that is not first-in-first-out: the evicted
\* entry was recorded after an entry of the same worker that is kept.
C10_Witness ==
    /\ call.op \in CleaningOps
    /\ \E u \in Uids : \E e \in Evicted(u) : \E e0 \in Kept(u) : e0.id < e.id

\* --------------------------------- claims: concurrent organic requests

\* The requests that have recorded their responses.
Saved == {r \in Requests : requests[r].pc = "saved"}

\* The entries request r recorded, each with its worker: <<uid, entry>>.
RecordedBy(r) ==
    {<<requests[r].uids[k],
       [id |-> requests[r].id + k - 1, start_time |-> requests[r].start_time]>> :
         k \in DOMAIN requests[r].uids}

\* Requests r1 and r2 were in flight at the same time, r1 recording first.
Overlapped(r1, r2) ==
    /\ r1 # r2
    /\ requests[r1].id < requests[r2].id
    /\ requests[r2].seen <= requests[r1].id

\* C11: whatever the interleaving of concurrent organic requests and
\* pruning reads, every entry a request recorded that is still inside the
\* retention window is in the history: no append is lost.
C11_NoAppendLost ==
    \A r \in Saved : \A p \in RecordedBy(r) :
        p[2].start_time >= now - HISTORY_EXPIRY_TIME
            => p \in EntriesOf(organic_history)

\* C11 witness: two requests in flight together recorded for the same
\* worker, the second one right after a pruning read, and a pruning read
\* followed; both entries are in the history.
C11_Witness ==
    /\ call.op \in CleaningOps
    /\ \E r1, r2 \in Saved :
         /\ Overlapped(r1, r2)
         /\ requests[r2].after \in CleaningOps
         /\ \E p1 \in RecordedBy(r1) : \E p2 \in RecordedBy(r2) :
               /\ p1[1] = p2[1]
               /\ {p1, p2} \subseteq EntriesOf(organic_history)

\* --------------------------------------------- claims: replay sampling

\* The workers with an entry of history h inside the retention window of
\* the last operation.
WithHistory(h) ==
    {u \in Uids : \E p \in EntriesOf(h) : p[1] = u /\ p[2].start_time >= WindowStart}

\* The last operation returned one position per worker with non-expired
\* history, and no worker twice.
OnePerWorker ==
    /\ Range(call.uids) = WithHistory(call.pre)
    /\ \A i, j \in DOMAIN call.uids : i # j => call.uids[i] # call.uids[j]

C13_LatestIsLastRecorded ==
    (call.op = "get_latest" /\ ~call.raised) =>
        /\ OnePerWorker
        /\ Len(call.responses) = Len(call.uids)
        /\ \A i \in DOMAIN call.uids :
             /\ <<call.uids[i], call.responses[i]>> \in EntriesOf(call.pre)
             /\ call.responses[i].start_time >= WindowStart
             /\ \A p \in EntriesOf(call.pre) :
                    (p[1] = call.uids[i] /\ p[2].start_time >= WindowStart)
                        => p[2].id <= call.responses[i].id

\* C13 witness: the latest entry of a worker was returned while an earlier
\* entry of that worker was inside the window, and an entry had expired.
C13_Witness ==
    /\ call.op = "get_latest"
    /\ ~call.raised
    /\ \E i \in DOMAIN call.uids :
         \E p \in EntriesOf(call.pre) :
             /\ p[1] = call.uids[i]
             /\ p[2].start_time >= WindowStart
             /\ p[2].id < call.responses[i].id
    /\ \E p \in EntriesOf(call.pre) : p[2].start_time < WindowStart

\* Sequence q lists elements of sequence s without repeating a position
\* and in the order they have in s.
InOrderOf(q, s) ==
    \E f \in [DOMAIN q -> DOMAIN s] :
        /\ \A i \in DOMAIN q : s[f[i]] = q[i]
        /\ \A i, j \in DOMAIN q : i < j => f[i] < f[j]

\* C14: get_uids_with_no_history(available_uids) returns exactly the
\* available uids with no entry inside the retention window, a worker
\* whose entries have all expired included, in the order given.
C14_NoHistoryUidsInOrder ==
    (call.op = "get_no_history" /\ ~call.raised) =>
        /\ Range(call.uids) = Range(call.available_uids) \ WithHistory(call.pre)
        /\ InOrderOf(call.uids, call.available_uids)

\* C14 witness: two workers were available, both with entries in the
\* history: the one whose entries had all expired was returned, the one
\* with an entry inside the window was not.
C14_Witness ==
    /\ call.op = "get_no_history"
    /\ ~call.raised
    /\ Len(call.available_uids) = 2
    /\ Len(call.uids) = 1
    /\ IndexOf(call.pre, call.uids[1]) # 0
    /\ WithHistory(call.pre) # {}

\* ------------------------------------------ claims: the membership refresh

\* The kinds whose history the last refresh cycle purged.
PurgedKinds ==
    IF call.fails_at = "none" THEN {"advanced", "basic"}
    ELSE IF call.fails_at = "purge_basic" THEN {"advanced"}
    ELSE {}

\* The workers the purge of history h removes: those not in the axons.
Deregistered(h) == KeysOf(h) \ HotkeysOf(metagraph)

\* C15: a removal of workers from an organic history deletes every entry
\* of the removed workers and leaves the entries of every other worker,
\* and the order of the workers, unchanged.
C15_RemovalKeepsOtherWorkers ==
    call.op = "refresh" =>
        \A k \in PurgedKinds :
            /\ \A w \in Deregistered(call.pre[k]) : ValuesOf(histories[k], w) = <<>>
            /\ \A w \in KeysOf(call.pre[k]) \ Deregistered(call.pre[k]) :
                   ValuesOf(histories[k], w) = ValuesOf(call.pre[k], w)
            /\ KeysOf(histories[k]) \subseteq KeysOf(call.pre[k])
            /\ InOrderOf(histories[k], call.pre[k])

\* C15 witness: a purge removed a worker with an entry from a history in
\* which another worker kept its entry.
C15_Witness ==
    /\ call.op = "refresh"
    /\ \E k \in PurgedKinds :
         /\ Deregistered(call.pre[k]) # {}
         /\ histories[k] # <<>>

\* C16: when a refresh cycle has completed, no organic history of the
\* validator (advanced, basic, basic web) holds an entry of a worker that
\* is not registered.
C16_EveryHistoryPurged ==
    (call.op = "refresh" /\ call.fails_at = "none") =>
        \A k \in Kinds : KeysOf(histories[k]) \subseteq HotkeysOf(metagraph)

\* ------------------------------------------- claims: the worker selection

\* The available uids the filters of the last call let through.
PassFilters ==
    {u \in Range(call.available_uids) :
        /\ call.specified_uids # <<>> => u \in Range(call.specified_uids)
        /\ call.is_only_allowed_miner
              => metagraph[u].coldkey \in only_allowed_miners}

\* C17: with no available worker, get_uids returns an empty sequence and
\* does not raise, whatever the strategy.
C17_EmptyWhenNoneAvailable ==
    (call.op = "get_uids" /\ call.available_uids = <<>>) =>
        /\ ~call.raised
        /\ call.uids = <<>>

\* C17 witness: get_uids was called with strategy SPECIFIED, and with
\* strategy RANDOM before any uid manager was built, while no worker was
\* available.
C17_Witness ==
    /\ call.op = "get_uids"
    /\ call.available_uids = <<>>
    /\ \/ call.strategy = "SPECIFIED"
       \/ call.strategy = "RANDOM" /\ ~uid_manager.built

\* C18: with strategy RANDOM and a worker available, a get_uids that
\* returns gives exactly the one uid the rotation picked, uid 0 included.
C18_RandomReturnsThePick ==
    (call.op = "get_uids" /\ call.strategy = "RANDOM" /\ ~call.raised
        /\ call.available_uids # <<>>) =>
        /\ Len(call.uids) = 1
        /\ {call.uids[1]} = call.picked
        /\ call.uids[1] \in Range(call.available_uids)

\* C19: with strategy ALL, get_uids returns exactly the available uids
\* that are in specified_uids, when given, and whose coldkey is in the
\* allow-list, when is_only_allowed_miner is set; in the order of the
\* available uids.
C19_AllReturnsFiltered ==
    (call.op = "get_uids" /\ call.strategy = "ALL") =>
        /\ ~call.raised
        /\ Range(call.uids) = PassFilters
        /\ InOrderOf(call.uids, call.available_uids)

\* C19 witness: both filters were set, specified_uids named two available
\* uids in another order than theirs, and the allow-list let one through.
C19_Witness ==
    /\ call.op = "get_uids"
    /\ call.strategy = "ALL"
    /\ call.is_only_allowed_miner
    /\ Len(call.specified_uids) = 2
    /\ call.specified_uids # call.available_uids
    /\ Range(call.specified_uids) = Range(call.available_uids)
    /\ Len(call.uids) = 1

\* C20: with strategy SPECIFIED, get_uids returns exactly the requested
\* uids that are available.
C20_SpecifiedReturnsRequested ==
    (call.op = "get_uids" /\ call.strategy = "SPECIFIED") =>
        /\ ~call.raised
        /\ Range(call.uids)
             = Range(call.specified_uids) \cap Range(call.available_uids)

\* --------------------------------------- claims: the periodic tasks

\* The refresh cycle performed last, and the one before it.
LastCycle == probed[Len(probed)]
CycleBefore == probed[1]

\* The workers whose probe in cycle c succeeded.
Succeeded(c) == {u \in Uids : c.probes[u] = "success"}

\* C21: a membership refresh returns exactly the worker ids whose own probe
\* succeeded, in the order of the metagraph: a probe that errors or is
\* unsuccessful excludes that worker only and the batch is not aborted.
C21_RefreshReturnsTheAlive ==
    (probed # <<>> /\ LastCycle.fails_at # "probe") =>
        /\ LastCycle.returned # {}
        /\ \A ids \in LastCycle.returned :
              /\ Range(ids) = Succeeded(LastCycle)
              /\ ids \in AscendingSeqs(Uids)
              /\ available_uids = ids

C21_Witness ==
    /\ probed # <<>>
    /\ LastCycle.fails_at = "none"
    /\ LastCycle.probes[0] = "error"
    /\ LastCycle.probes[1] = "success"
    /\ available_uids = <<1>>

\* C22: the result of a refresh depends on the probe outcomes of that
\* refresh only: two refreshes in a row with the same outcomes return the
\* same list, and a worker left out by one refresh is returned by the next
\* one if its probe then succeeds.
C22_RefreshHasNoMemory ==
    (/\ Len(probed) = 2
     /\ LastCycle.fails_at # "probe"
     /\ CycleBefore.fails_at # "probe") =>
        /\ LastCycle.probes = CycleBefore.probes =>
              LastCycle.returned = CycleBefore.returned
        /\ \A ids \in LastCycle.returned : \A u \in Succeeded(LastCycle) :
              u \in Range(ids) /\ u \in Range(available_uids)

C22_Witness ==
    /\ Len(probed) = 2
    /\ CycleBefore.fails_at = "none"
    /\ CycleBefore.returned = {<<1>>}
    /\ LastCycle.fails_at = "none"
    /\ LastCycle.probes[0] = "success"
    /\ available_uids = <<0, 1>>

\* C23: a failure anywhere in a cycle of the refresh loop is caught: the
\* loop sleeps and is due for its next cycle, and available_uids is the list
\* assigned last: that of this cycle if the probing had returned, the one
\* before otherwise.
C23_RefreshLoopSurvives ==
    (probed # <<>> /\ LastCycle.fails_at # "none") =>
        /\ pc["refresh"] = "sleeping"
        /\ ENABLED RefreshCycle
        /\ IF LastCycle.fails_at = "probe"
           THEN available_uids = LastCycle.before
           ELSE LastCycle.returned = {available_uids}

C23_Witness ==
    /\ Len(probed) = 2
    /\ CycleBefore.fails_at = "none"
    /\ CycleBefore.returned = {<<0, 1>>}
    /\ LastCycle.fails_at = "probe"
    /\ available_uids = <<0, 1>>
    /\ pc["refresh"] = "sleeping"

\* C24: a periodic metagraph resync that fails with a registry error does
\* not stop the periodic task: the loop is due for a later resync.
C24_ResyncLoopSurvives ==
    (call.op = "sync_metagraph" /\ call.raised) =>
        pc["sync_metagraph"] = "sleeping"

\* C25: if reading the block or committing the weights fails in an iteration
\* of the sync loop, the loop does not terminate: it sleeps and is due for
\* its next iteration, which evaluates the commit decision again.
C25_SyncLoopSurvives ==
    (call.op = "sync" /\ call.raised) =>
        /\ pc["sync"] = "sleeping"
        /\ ENABLED SyncIteration

C25_Witness ==
    /\ call.op = "sync"
    /\ call.raised
    /\ call.attempted
    /\ ~call.committed
    /\ pc["sync"] = "sleeping"

\* C26: an iteration of the sync loop commits the weights only if the
\* countdown it read is at most 20 blocks and should_set_weights() is true;
\* should_set_weights() is false exactly when the configuration disables
\* weight setting, and then no iteration commits.
C26_CommitOnlyWhenDue ==
    /\ should_set_weights <=> ~config.disable_set_weights
    /\ call.op = "sync" =>
          /\ call.attempted =>
                /\ \A blocks_left \in call.blocks_left : blocks_left <= 20
                /\ call.blocks_left # {}
                /\ ~config.disable_set_weights
          /\ call.committed => call.attempted
          /\ config.disable_set_weights => ~call.attempted

C26_Witness ==
    /\ call.op = "sync"
    /\ call.committed
    /\ call.blocks_left = {20}
    /\ ~config.disable_set_weights

\* --------------------------------------------- claims: the LLM scoring

\* The sources asked in the last llm_processing call, by position, and the
\* sources asked about item k.
SourcesAsked == DOMAIN call.asked
AskedAbout(k) == {i \in SourcesAsked : k \in Range(call.asked[i])}

\* The sources that, asked about item k, gave a text with a digit.
GaveScore(k) ==
    {i \in AskedAbout(k) :
        ~call.answers[i].raised /\ call.answers[i].texts[k] = "numeric"}

\* The sources that raised, or were asked about no message.
Failed == {i \in SourcesAsked : call.answers[i].raised \/ call.asked[i] = <<>>}

\* C27: llm_processing asks the sources in their order; the first source
\* that gives an item a numeric score text wins: the item is handed to no
\* later source and keeps that score; a source that raises or returns
\* nothing contributes nothing and the next one gets the same messages; if
\* every source fails the result is empty.
C27_FirstUsableScoreWins ==
    call.op = "llm_processing" =>
        /\ \A i \in SourcesAsked : \A j \in SourcesAsked : i < j =>
              Range(call.asked[j]) \subseteq Range(call.asked[i])
        /\ \A k \in Items : \A i \in GaveScore(k) :
              /\ \A j \in AskedAbout(k) : j <= i
              /\ \E e \in Range(call.score_responses) :
                    /\ e.key = k
                    /\ e.score_text = [text |-> "numeric", by |-> i]
              /\ \A e \in Range(call.score_responses) :
                    e.key = k => e.score_text.by = i
        /\ \A i \in Failed :
              /\ \A e \in Range(call.score_responses) : e.score_text.by # i
              /\ (i + 1) \in SourcesAsked => call.asked[i + 1] = call.asked[i]
        /\ Failed = DOMAIN call.scoring_sources => call.score_responses = <<>>

C27_Witness ==
    /\ call.op = "llm_processing"
    /\ call.messages = <<1, 2>>
    /\ call.asked = << <<1, 2>>, <<2>> >>
    /\ ~call.answers[1].raised
    /\ call.answers[1].texts = [k \in Items |-> IF k = 1 THEN "numeric" ELSE "text"]
    /\ ~call.answers[2].raised
    /\ call.score_responses =
          << [key |-> 1, score_text |-> [text |-> "numeric", by |-> 1]],
             [key |-> 2, score_text |-> [text |-> "numeric", by |-> 2]] >>

\* The items source i was asked about and left without a usable score: its
\* score text for them is None or holds no digit.
LeftUnscored(i) ==
    {k \in Range(call.asked[i]) : call.answers[i].texts[k] # "numeric"}

RECURSIVE SumFor(_, _)
SumFor(i, evaluations) ==
    IF evaluations = <<>> THEN 0
    ELSE Head(evaluations)[i] + SumFor(i, Tail(evaluations))

\* x brought into [0, 1].
Clamped(x) == IF x > Scale THEN Scale ELSE IF x < 0 THEN 0 ELSE x

\* C28: the penalty calculate_penalties returns has one value per response,
\* which is the sum of the penalties of all the criteria of the task for
\* that response clamped to [0, 1], and is 0 for every response when the
\* task has no criteria.
C28_PenaltyIsClampedSum ==
    call.op = "calculate_penalties" =>
        /\ DOMAIN call.accumulated_penalties = 1..call.responses
        /\ \A i \in 1..call.responses :
              /\ call.accumulated_penalties[i] = Clamped(SumFor(i, call.evaluations))
              /\ call.evaluations = <<>> => call.accumulated_penalties[i] = 0

\* C28, as the code has it: the penalty calculate_penalties returns has one
\* value per response, which is the plain sum of the penalties of all the
\* criteria of the task for that response, above 1 when they add up to
\* more, and is 0 for every response when the task has no criteria.
C28_PenaltyIsPlainSum ==
    call.op = "calculate_penalties" =>
        /\ DOMAIN call.accumulated_penalties = 1..call.responses
        /\ \A i \in 1..call.responses :
              /\ call.accumulated_penalties[i] = SumFor(i, call.evaluations)
              /\ call.evaluations = <<>> => call.accumulated_penalties[i] = 0

C28_Witness ==
    /\ call.op = "calculate_penalties"
    /\ call.responses = 2
    /\ Len(call.evaluations) = 2
    /\ call.accumulated_penalties[1] = Scale + Scale \div 2
    /\ call.accumulated_penalties[2] = 0

\* ---------------------------------------------- claims: the query loops

\* C29: the number of query rounds in flight at the same time is bounded:
\* the loops never hold as many unfinished rounds as MaxRounds, however
\* slow the rounds are.
C29_RoundsInFlightBounded == rounds < MaxRounds

\* The last step was an iteration of a query loop that found no available
\* uid, or one that created a round.
FoundNoneAvailable == call.op = "query_loop" /\ call.available_uids = <<>>
RoundStarted == call.op = "query_loop" /\ call.created > 0

\* C30: a query loop that finds the available uids empty starts no round
\* and raises nothing, and checks again after its short sleep; once the
\* list is non-empty a round is eventually started, unless the list is
\* emptied again first.
C30_EmptyMeansRetryLater ==
    /\ [](FoundNoneAvailable =>
            /\ call.created = 0
            /\ ~call.raised
            /\ pc[call.loop] = "retry")
    /\ (available_uids # <<>>) ~> (RoundStarted \/ available_uids = <<>>)

C30_Witness ==
    /\ RoundStarted
    /\ call.was = "retry"
    /\ rounds = call.rounds + call.created

\* ------------------------------------ claims: the search result aggregation

\* The results of the field under name that the responses of the last call
\* carried, in the order of the responses.
RECURSIVE Gathered(_, _)
Gathered(responses, name) ==
    IF responses = <<>> THEN <<>>
    ELSE Head(responses)[name].items \o Gathered(Tail(responses), name)

\* C31: aggregate_search_results returns a dictionary that has, for every
\* requested tool, an entry under that tool's name, which holds the results
\* of the tool gathered from all the responses and is the empty list when no
\* response carried data for it.
C31_EntryPerToolName ==
    call.op = "aggregate" =>
        /\ ~call.raised
        /\ \A i \in DOMAIN call.tools :
              /\ call.tools[i] \in DOMAIN call.aggregated
              /\ field_mapping(call.tools[i]) # None =>
                    call.aggregated[call.tools[i]].items =
                        Gathered(call.responses, field_mapping(call.tools[i]))

\* ---------------------------------- claims: the update in floating point

\* C32: update_moving_averaged_scores(uids, rewards) leaves the score of
\* every worker id that is not in uids exactly unchanged.
C32_UnlistedScoresUnchanged ==
    call.op = "float_update" =>
        \A u \in Uids \ Range(call.uids) :
            call.new[u] = FloatUnit * call.old[u]

\* ------------------------------------------ claims: the epoch countdown

\* C34: blocks_until_next_epoch is tempo - (current_block + netuid + 1) mod
\* (tempo + 1): at every block an integer from 0 to tempo, which is one
\* less at the next block and goes from 0 back to tempo.
C34_CountdownWraps ==
    call.op = "countdown" =>
        /\ call.blocks_left \in 0..Tempo
        /\ \E k \in 0..Tempo :
              /\ (call.current_block + Netuid + 1 - k) % (Tempo + 1) = 0
              /\ call.blocks_left = Tempo - k
        /\ call.blocks_left > 0 => call.at_next_block = call.blocks_left - 1
        /\ call.blocks_left = 0 => call.at_next_block = Tempo

C34_Witness ==
    /\ call.op = "countdown"
    /\ call.current_block > Tempo
    /\ call.blocks_left = 0
    /\ call.at_next_block = Tempo

\* ------------------------------------------ claims: organic re-scoring

\* C35: with synthetic queries disabled the sync loop starts at most one
\* organic task between two consecutive iterations that see more than 100
\* blocks left: the flag goes up only when a task is started and comes down
\* only at an iteration that sees more than 100 blocks left. With synthetic
\* queries enabled it starts none.
C35_OneOrganicTaskPerEpoch ==
    /\ [](call.op = "sync" =>
            /\ call.started_since_far <= 1
            /\ ~config.synthetic_disabled => ~call.computes)
    /\ [][organic_responses_computed' # organic_responses_computed =>
            /\ call'.op = "sync"
            /\ organic_responses_computed' => call'.computes
            /\ ~organic_responses_computed' =>
                  \E n \in call'.blocks_left : n > OrganicThreshold]_vars

\* A second iteration with 100 blocks or fewer left, after a task was started.
C35_Witness ==
    /\ call.op = "sync"
    /\ config.synthetic_disabled
    /\ ~call.raised
    /\ call.blocks_left = {21}
    /\ ~call.computes
    /\ call.started_since_far = 1

\* ---------------------------------------------- claims: the uid manager

C37_TwoAttemptsThenNone ==
    call.op = "call_openai" =>
        LET n == Len(call.outcomes)
        IN /\ n <= 2
           /\ \A k \in 1..(n - 1) : call.outcomes[k] = "error"
           /\ call.waits >= n - 1
           /\ \A k \in 1..n : call.requests[k] = call.args
           /\ call.pc = "returned" =>
                 /\ call.returned # {}
                 /\ call.returned = {None} <=>
                       (n = 2 /\ \A k \in 1..n : call.outcomes[k] = "error")
                 /\ call.returned # {None} =>
                       call.returned = {call.outcomes[n]}
           /\ call.pc # "returned" => call.returned = {}

\* The second attempt succeeded.
C37_Witness ==
    /\ call.op = "call_openai"
    /\ call.pc = "returned"
    /\ call.outcomes = <<"error", "Score: 9">>
    /\ call.returned = {"Score: 9"}
    /\ call.waits = 1

\* ------------------------------------------ claims: the HTTP endpoints

\* C38: at every endpoint a request whose access_key header differs from
\* the expected key is answered 401, with no worker queried and no organic
\* history recorded.
C38_WrongKeyRejectedFirst ==
    (call.op = "http" /\ call.access_key # EXPECTED_ACCESS_KEY) =>
        /\ call.status = 401
        /\ call.dispatched = {}
        /\ histories = call.pre

\* A wrong key at an endpoint that had served a request, workers available.
C38_Witness ==
    /\ call.op = "http"
    /\ call.access_key = "other"
    /\ call.endpoint = "/search/links"
    /\ call.status = 401
    /\ available_uids # <<>>
    /\ histories["advanced"] # <<>>

\* ------------------------------------------ claims: the SerpAPI wrappers

\* C39: constructing a wrapper with custom params changes the request
\* parameters of no other wrapper, made before it or after it: every
\* wrapper requests with the class defaults updated by the params it was
\* itself constructed with.
C39_WrappersKeepOwnParams ==
    call.op = "serp" =>
        \A i \in DOMAIN call.wrappers :
            get_params(call.wrappers[i], "q").params =
                UpdateDict(DefaultParams, call.wrappers[i].given)

\* --------------------------------------- claims: the synthetic intervals

\* The interval configured for the strategy of a synthetic loop.
OwnInterval(l, c) ==
    IF l = "RANDOM" THEN c.run_random_miner_syn_qs_interval
    ELSE c.run_all_miner_syn_qs_interval

\* C40: with synthetic queries enabled the loop of a strategy (RANDOM, ALL)
\* is started exactly when the strategy's own interval is greater than 0,
\* and after starting a round it sleeps the strategy's own interval, a
\* positive time.
C40_OwnIntervalBetweenRounds ==
    /\ ~config.synthetic_disabled =>
          \A l \in {"RANDOM", "ALL"} :
              pc[l] # "off" <=> OwnInterval(l, config) > 0
    /\ (/\ call.op = "query_loop"
        /\ call.loop \in {"RANDOM", "ALL"}
        /\ call.created > 0) =>
          /\ call.sleeps = OwnInterval(call.loop, config)
          /\ call.sleeps > 0

====
